---- MODULE Spec2Model ----
(***************************************************************************)
(* Model of the router service (router-service/app): the decision engine   *)
(* compute_decision, the fallback executor run_with_fallback, the /run     *)
(* pipeline handle_run, the /execute handler and the registry client.      *)
(*                                                                         *)
(* One request is followed from its arrival to its response. Every await   *)
(* of the handlers is one action: the I/O call that is awaited, together   *)
(* with the non-suspending code that runs until the next await.            *)
(* Numbers: confidence is kept in percent (0.95 -> 95), cost_estimate in   *)
(* millionths (round(x, 6) -> integer), error messages and reasons as      *)
(* sequences of their parts.                                               *)
(***************************************************************************)
EXTENDS Integers, Sequences, FiniteSets, TLC

VARIABLES
    regPolicy,        \* system_registry[router_policy]: the value, and whether a
                      \* read yields it (not: absent, non-200 or an exception)
    regGovernance,    \* system_registry[governance], likewise
    endpoint,         \* "run", "execute" or "route": the handler serving the request
    request,          \* the request body
    pc,               \* the await the handler is suspended at
    policy,           \* handle_run: policy
    governance,       \* handle_run: governance
    task_id,          \* handle_run / execute: task_id
    decision,         \* handle_run: decision
    decision_id,      \* handle_run: decision_id
    start_idx,        \* run_with_fallback: start_idx (1-based here)
    tier_idx,         \* run_with_fallback: tier_idx (1-based here)
    attempt,          \* run_with_fallback: attempt (0-based, as range())
    model,            \* run_with_fallback / execute: model
    local_fail_count, \* run_with_fallback: local_fail_count
    last_error,       \* run_with_fallback: last_error
    total_latency,    \* run_with_fallback: total_latency
    result,           \* run_with_fallback / execute: result (the adapter's answer)
    final_decision,   \* run_with_fallback: final_decision
    router_result,    \* handle_run: result (the RouterResult)
    response,         \* what the handler returns to the caller
    calls,            \* adapter calls issued, in order
    writes,           \* registry write calls issued, in order
    db,               \* what the registry holds of this request's writes
    reads,            \* registry reads issued, in order, over all requests
    served,           \* the number of the request being served (from 1)
    cancelled,        \* << >>, or << n >> once the caller has cancelled the
                      \* request, n adapter calls having been answered by then
    suspended         \* the locals of the /run handlers that wait at an await
                      \* while the handler above runs (the event loop's other
                      \* coroutines), in order

vars == <<regPolicy, regGovernance, endpoint, request, pc, policy, governance,
          task_id, decision, decision_id, start_idx, tier_idx, attempt, model,
          local_fail_count, last_error, total_latency, result, final_decision,
          router_result, response,
          calls, writes, db, reads, served, cancelled, suspended>>

\* ---------------------------------------------------------------- bounds

\* longest fallback_chain enumerated exhaustively
MaxChain == 2

\* largest max_local_retries (and escalation_rules.local_fail_count)
MaxRetries == 2

\* requests served one after the other
MaxRequests == 2

\* ---------------------------------------------------------------- schemas

Tier == {"local", "market", "premium"}

Sensitivity == {"low", "normal", "high"}

TaskStatus == {"received", "routing", "executing", "completed", "failed"}

\* Python's None, where a string is expected
None == "None"

\* a local of a handler that has not been assigned yet, where a record
\* (a model instance or a dict) is expected
Unbound == [ unbound |-> TRUE ]

\* an absent message (None where Optional[str] is expected); a message is the
\* sequence of its parts
NoMessage == << >>

\* str(x) of an Optional[str], as an f-string formats it
Str(msg) == IF msg = NoMessage THEN "None" ELSE msg[1]

\* RoutingPolicy() with every field at its default
DefaultPolicy ==
    [ default_tier |-> "local",
      local_ratio |-> 80,
      max_local_retries |-> 2,
      context_threshold_tokens |-> 4000,
      escalation_rules |-> [ local_fail_count |-> 2,
                             invalid_json_escalate |-> TRUE,
                             context_overflow_escalate |-> TRUE ],
      premium_trigger |-> "sensitivity_high_only",
      fallback_chain |-> <<"local", "market", "premium">>,
      models |-> [ t \in Tier |->
                     CASE t = "local" -> "llama3.1:8b"
                       [] t = "market" -> "meta-llama/llama-3.1-70b-instruct"
                       [] t = "premium" -> "claude-sonnet-4-20250514" ] ]

\* Governance() with every field at its default
DefaultGovernance ==
    [ level |-> "standard",
      require_audit |-> TRUE,
      require_explanation |-> TRUE,
      max_cost_per_request |-> 500000,
      premium_approval_required |-> FALSE ]

_FALLBACK_POLICY == DefaultPolicy

_FALLBACK_GOVERNANCE == DefaultGovernance

\* dict.get(key, default) on a policy's models mapping
ModelsGet(models, key, default) ==
    IF key \in DOMAIN models THEN models[key] ELSE default

\* RouterDecision's field constraints (pydantic raises ValidationError otherwise)
RouterDecisionValid(d) ==
    /\ d.route \in Tier
    /\ Len(d.reason) >= 1
    /\ d.confidence >= 0 /\ d.confidence <= 100
    /\ d.escalation_level >= 0 /\ d.escalation_level <= 3
    /\ d.cost_estimate >= 0

\* ---------------------------------------------------------------- decision engine

\* per 1K tokens, in millionths
COST_PER_1K == [ t \in Tier |->
                   CASE t = "local" -> 0
                     [] t = "market" -> 800
                     [] t = "premium" -> 3000 ]

\* estimate_tokens at eight characters per token
estimate_tokens_PerEight(len) == IF len \div 8 >= 1 THEN len \div 8 ELSE 1

\* max(1, len(text) // 4), on the length of the text
estimate_tokens(len) == IF len \div 4 >= 1 THEN len \div 4 ELSE 1

\* round(rate * (token_count / 1000), 6) in millionths: round-half-even of
\* rate * token_count / 1000
estimate_cost(tier, token_count) ==
    LET n == COST_PER_1K[tier] * token_count
        q == n \div 1000
        r == n % 1000
    IN  IF r * 2 < 1000 THEN q
        ELSE IF r * 2 > 1000 THEN q + 1
        ELSE IF q % 2 = 0 THEN q ELSE q + 1

\* one part of a reason: its text and the values formatted into it
ReasonPart(text, a, b) == [ text |-> text, a |-> a, b |-> b ]

\* compute_decision with the context rule tried before the sensitivity rule
compute_decision_ContextFirst(req, pol, gov) ==
    LET total_tokens == estimate_tokens(req.prompt_len)
                        + estimate_tokens(req.context_len)
    IN  IF /\ total_tokens > pol.context_threshold_tokens
           /\ pol.escalation_rules.context_overflow_escalate
        THEN [ route |-> "market",
               model |-> ModelsGet(pol.models, "market", "meta-llama/llama-3.1-70b-instruct"),
               reason |-> << ReasonPart("Context size exceeds threshold, escalating to market tier",
                                        total_tokens, pol.context_threshold_tokens) >>,
               confidence |-> 85,
               escalation_level |-> 1,
               cost_estimate |-> estimate_cost("market", total_tokens * 2) ]
        ELSE IF /\ req.sensitivity = "high"
                /\ pol.premium_trigger = "sensitivity_high_only"
        THEN [ route |-> "premium",
               model |-> ModelsGet(pol.models, "premium", "claude-sonnet-4-20250514"),
               reason |-> << ReasonPart("Sensitivity=high triggers premium tier per policy", 0, 0) >>,
               confidence |-> 95,
               escalation_level |-> 2,
               cost_estimate |-> estimate_cost("premium", total_tokens * 2) ]
        ELSE [ route |-> "local",
               model |-> ModelsGet(pol.models, "local", "llama3.1:8b"),
               reason |-> << ReasonPart("Default routing to local tier", pol.local_ratio, 0) >>,
               confidence |-> 90,
               escalation_level |-> 0,
               cost_estimate |-> 0 ]

\* compute_decision that lets governance veto the premium tier
compute_decision_Governed(req, pol, gov) ==
    LET total_tokens == estimate_tokens(req.prompt_len)
                        + estimate_tokens(req.context_len)
    IN  IF /\ req.sensitivity = "high"
           /\ pol.premium_trigger = "sensitivity_high_only"
           /\ ~ gov.premium_approval_required
        THEN [ route |-> "premium",
               model |-> ModelsGet(pol.models, "premium", "claude-sonnet-4-20250514"),
               reason |-> << ReasonPart("Sensitivity=high triggers premium tier per policy", 0, 0) >>,
               confidence |-> 95,
               escalation_level |-> 2,
               cost_estimate |-> estimate_cost("premium", total_tokens * 2) ]
        ELSE IF /\ total_tokens > pol.context_threshold_tokens
                /\ pol.escalation_rules.context_overflow_escalate
        THEN [ route |-> "market",
               model |-> ModelsGet(pol.models, "market", "meta-llama/llama-3.1-70b-instruct"),
               reason |-> << ReasonPart("Context size exceeds threshold, escalating to market tier",
                                        total_tokens, pol.context_threshold_tokens) >>,
               confidence |-> 85,
               escalation_level |-> 1,
               cost_estimate |-> estimate_cost("market", total_tokens * 2) ]
        ELSE [ route |-> "local",
               model |-> ModelsGet(pol.models, "local", "llama3.1:8b"),
               reason |-> << ReasonPart("Default routing to local tier", pol.local_ratio, 0) >>,
               confidence |-> 90,
               escalation_level |-> 0,
               cost_estimate |-> 0 ]

\* compute_decision that routes sensitivity=high to premium under any trigger
compute_decision_AnyTrigger(req, pol, gov) ==
    LET total_tokens == estimate_tokens(req.prompt_len)
                        + estimate_tokens(req.context_len)
    IN  IF req.sensitivity = "high"
        THEN [ route |-> "premium",
               model |-> ModelsGet(pol.models, "premium", "claude-sonnet-4-20250514"),
               reason |-> << ReasonPart("Sensitivity=high triggers premium tier per policy", 0, 0) >>,
               confidence |-> 95,
               escalation_level |-> 2,
               cost_estimate |-> estimate_cost("premium", total_tokens * 2) ]
        ELSE IF /\ total_tokens > pol.context_threshold_tokens
                /\ pol.escalation_rules.context_overflow_escalate
        THEN [ route |-> "market",
               model |-> ModelsGet(pol.models, "market", "meta-llama/llama-3.1-70b-instruct"),
               reason |-> << ReasonPart("Context size exceeds threshold, escalating to market tier",
                                        total_tokens, pol.context_threshold_tokens) >>,
               confidence |-> 85,
               escalation_level |-> 1,
               cost_estimate |-> estimate_cost("market", total_tokens * 2) ]
        ELSE [ route |-> "local",
               model |-> ModelsGet(pol.models, "local", "llama3.1:8b"),
               reason |-> << ReasonPart("Default routing to local tier", pol.local_ratio, 0) >>,
               confidence |-> 90,
               escalation_level |-> 0,
               cost_estimate |-> 0 ]

compute_decision(req, pol, gov) ==
    LET prompt_tokens == estimate_tokens(req.prompt_len)
        context_tokens == estimate_tokens(req.context_len)
        total_tokens == prompt_tokens + context_tokens
    IN  IF /\ req.sensitivity = "high"
           /\ pol.premium_trigger = "sensitivity_high_only"
        THEN [ route |-> "premium",
               model |-> ModelsGet(pol.models, "premium", "claude-sonnet-4-20250514"),
               reason |-> << ReasonPart("Sensitivity=high triggers premium tier per policy", 0, 0) >>,
               confidence |-> 95,
               escalation_level |-> 2,
               cost_estimate |-> estimate_cost("premium", total_tokens * 2) ]
        ELSE IF /\ total_tokens > pol.context_threshold_tokens
                /\ pol.escalation_rules.context_overflow_escalate
        THEN [ route |-> "market",
               model |-> ModelsGet(pol.models, "market", "meta-llama/llama-3.1-70b-instruct"),
               reason |-> << ReasonPart("Context size exceeds threshold, escalating to market tier",
                                        total_tokens, pol.context_threshold_tokens) >>,
               confidence |-> 85,
               escalation_level |-> 1,
               cost_estimate |-> estimate_cost("market", total_tokens * 2) ]
        ELSE [ route |-> "local",
               model |-> ModelsGet(pol.models, "local", "llama3.1:8b"),
               reason |-> << ReasonPart("Default routing to local tier", pol.local_ratio, 0) >>,
               confidence |-> 90,
               escalation_level |-> 0,
               cost_estimate |-> 0 ]

\* ---------------------------------------------------------------- tier adapters

\* the name each adapter gives its backend in its messages
Provider(tier) ==
    CASE tier = "local" -> "Ollama"
      [] tier = "market" -> "OpenRouter"
      [] tier = "premium" -> "Claude"

\* the credential a hosted adapter needs (the local adapter needs none)
CredentialName(tier) ==
    CASE tier = "market" -> "OPENROUTER_API_KEY"
      [] tier = "premium" -> "ANTHROPIC_API_KEY"
      [] OTHER -> ""

\* what the backend does with a POST: it answers with a status and a body (by
\* what the content of a 200 turns out to be: a JSON object, empty or not, text
\* that is no JSON, or a body the adapter cannot process), it lets the request
\* time out, or the transport raises another exception, whose str() may be
\* empty; elapsed: the milliseconds it takes, usage: the tokens it reports
HttpResponse(status, body, elapsed, usage) ==
    [ kind |-> "response", status |-> status, body |-> body, message |-> "",
      elapsed |-> elapsed, usage |-> usage ]

HttpTimeout ==
    [ kind |-> "timeout", status |-> 0, body |-> "", message |-> "",
      elapsed |-> 7, usage |-> 0 ]

HttpException(message) ==
    [ kind |-> "exception", status |-> 0, body |-> "", message |-> message,
      elapsed |-> 7, usage |-> 0 ]

\* no POST was issued
NoBackend ==
    [ kind |-> "none", status |-> 0, body |-> "", message |-> "",
      elapsed |-> 0, usage |-> 0 ]

\* the backend behaviours the fallback executor is run against: a 500, a 200
\* with a JSON object, a 200 with text that is no JSON
RunBackends ==
    { HttpResponse(500, "error page", 7, 0),
      HttpResponse(200, "dict", 9, 250),
      HttpResponse(200, "raw_text", 9, 250) }

\* the backend behaviours an adapter is run against
Backends ==
    RunBackends
    \cup { HttpResponse(201, "dict", 9, 250),
           HttpResponse(200, "empty_dict", 9, 250),
           HttpResponse(200, "malformed", 9, 0),
           HttpTimeout,
           HttpException("All connection attempts failed"),
           HttpException("") }

\* the result dict of a failed call
AdapterFailure(latency_ms, error) ==
    [ success |-> FALSE, output |-> None, latency_ms |-> latency_ms,
      token_count |-> 0, error |-> error ]

\* generate that takes every 2xx answer for a success
generate_Any2xx(tier, key_set, backend) ==
    IF tier # "local" /\ ~ key_set
    THEN [ posted |-> FALSE,
           result |-> AdapterFailure(0, << CredentialName(tier) \o " not configured" >>) ]
    ELSE [ posted |-> TRUE,
           result |->
             CASE backend.kind = "timeout" ->
                    AdapterFailure(backend.elapsed,
                                   << Provider(tier) \o " request timed out" >>)
               [] backend.kind = "exception" ->
                    AdapterFailure(backend.elapsed, << backend.message >>)
               [] OTHER ->
                    IF backend.status \notin 200..299
                    THEN AdapterFailure(backend.elapsed,
                           << Provider(tier) \o " returned "
                                \o ToString(backend.status) >>)
                    ELSE IF backend.body = "malformed"
                    THEN AdapterFailure(backend.elapsed,
                           << "Expecting value: line 1 column 1 (char 0)" >>)
                    ELSE [ success |-> TRUE, output |-> backend.body,
                           latency_ms |-> backend.elapsed,
                           token_count |-> backend.usage, error |-> NoMessage ] ]

\* generate() of the adapter of a tier, key_set telling whether its credential
\* is configured: the result dict, and whether a POST was issued. A hosted
\* adapter without credential returns at once; otherwise the POST is made
\* inside try/except: a TimeoutException, any other Exception (one raised by
\* processing the body of a 200 included) and a status other than 200 each
\* give a failure dict, a 200 gives the parsed content, or the text when it is
\* no JSON
generate(tier, key_set, backend) ==
    IF tier # "local" /\ ~ key_set
    THEN [ posted |-> FALSE,
           result |-> AdapterFailure(0, << CredentialName(tier) \o " not configured" >>) ]
    ELSE [ posted |-> TRUE,
           result |->
             CASE backend.kind = "timeout" ->
                    AdapterFailure(backend.elapsed,
                                   << Provider(tier) \o " request timed out" >>)
               [] backend.kind = "exception" ->
                    AdapterFailure(backend.elapsed, << backend.message >>)
               [] OTHER ->
                    IF backend.status # 200
                    THEN AdapterFailure(backend.elapsed,
                           << Provider(tier) \o " returned "
                                \o ToString(backend.status) >>)
                    ELSE IF backend.body = "malformed"
                    THEN AdapterFailure(backend.elapsed,
                           << "Expecting value: line 1 column 1 (char 0)" >>)
                    ELSE [ success |-> TRUE, output |-> backend.body,
                           latency_ms |-> backend.elapsed,
                           token_count |-> backend.usage, error |-> NoMessage ] ]

\* what execute_on_tier returns to the fallback executor: the result dicts of
\* the tier's adapter, its credential configured, over RunBackends
AttemptResults(tier) ==
    { generate(tier, TRUE, b).result : b \in RunBackends }

\* the kinds of value an output can be: a parsed object or array (empty or
\* not), another parsed JSON value, a string holding JSON text, a string that
\* is no JSON, None
OutputKinds == { "dict", "list", "empty_dict", "number", "json_text", "raw_text", None }

_is_valid_json_output(output) ==
    IF output \in { "dict", "list", "empty_dict" } THEN TRUE
    ELSE IF output \in { "json_text", "raw_text" } THEN output = "json_text"
    ELSE FALSE

\* Python truthiness of an output
Truthy(output) == output \notin { None, "empty_dict" }

\* str(output)[:500] if output else None
Preview(output) == IF Truthy(output) THEN << output >> ELSE NoMessage

\* ---------------------------------------------------------------- registry client

\* an id allocated for request n: ids are unique, so each request has its own
IdOf(base, n) == IF n = 1 THEN base ELSE base \o "-" \o ToString(n)

\* the id the registry allocates for the task row of the request being
\* served, and the uuid minted locally for it
RegistryTaskId == IdOf("task-registry", served)

LocalTaskId == IdOf("task-uuid4", served)

\* the id the registry allocates for the decision row of the request
RegistryDecisionId == IdOf("decision-registry", served)

\* the rows of one request that the handlers depend on: whether its task row
\* and its decision row exist (status updates and events return nothing: a
\* row of them the registry refuses changes nothing the program can see)
NoRows == [ task |-> FALSE, decision |-> FALSE ]

\* log_task: the POST issued
TaskInsert(task_type, req_sensitivity, source) ==
    [ op |-> "task_insert", task_type |-> task_type, source |-> source,
      sensitivity |-> req_sensitivity, status |-> "received" ]

\* update_task_status: the PATCH issued
StatusUpdate(tid, status) ==
    [ op |-> "status", task_id |-> tid, status |-> status ]

\* log_decision: the POST issued
DecisionInsert(tid, d, policy_snapshot, governance_level) ==
    [ op |-> "decision_insert", task_id |-> tid, decision |-> d,
      policy_snapshot |-> policy_snapshot, governance_level |-> governance_level ]

\* log_event: the POST issued
Event(tid, did, event_type, tier, mdl, success, latency_ms, token_count, error_message, response_preview) ==
    [ op |-> "event", task_id |-> tid, decision_id |-> did,
      event_type |-> event_type, tier |-> tier, model |-> mdl,
      success |-> success, latency_ms |-> latency_ms,
      token_count |-> token_count, error_message |-> error_message,
      response_preview |-> response_preview ]

\* Each write of the registry client: the registry after the call, what the
\* call returns, and whether it raises. Every one of them catches Exception
\* and logs it, so none raises. ok: whether the registry took the write.

\* update_task_status(task_id, status): returns nothing
update_task_status(rows, ok) ==
    [ rows |-> rows, value |-> None, raised |-> FALSE ]

\* log_event without its try/except: a write the registry refuses raises
log_event_Uncaught(rows, ok) ==
    [ rows |-> rows, value |-> None, raised |-> ~ ok ]

\* log_event(...): returns nothing
log_event(rows, ok) ==
    [ rows |-> rows, value |-> None, raised |-> FALSE ]

\* log_task(...): returns the task_id, or None
log_task(rows, ok) ==
    [ rows |-> IF ok THEN [ rows EXCEPT !.task = TRUE ] ELSE rows,
      value |-> IF ok THEN RegistryTaskId ELSE None, raised |-> FALSE ]

\* log_decision(...): returns the decision_id, or None
log_decision(rows, ok) ==
    [ rows |-> IF ok THEN [ rows EXCEPT !.decision = TRUE ] ELSE rows,
      value |-> IF ok THEN RegistryDecisionId ELSE None, raised |-> FALSE ]

\* where a handler goes on after an awaited call w: an exception leaves the
\* handler (run() turns it into an HTTP 500)
AfterAwait(w, next_pc) == IF w.raised THEN "http500" ELSE next_pc

\* OrLocalUuid that mints nothing: the handler goes on with what log_task gave
OrLocalUuid_Keep(tid) == tid

\* if not task_id: task_id = str(uuid.uuid4())
OrLocalUuid(tid) == IF tid = None THEN LocalTaskId ELSE tid

\* a registry key whose read yields value v, and one whose read yields nothing
Readable(v) == [ readable |-> TRUE, value |-> v ]

Unreadable(v) == [ readable |-> FALSE, value |-> v ]

\* a GET on system_registry by request n: the key, what the registry holds
\* under it, whether the read yields it, and the value val the client returns
RegistryRead(key, reg, val, n) ==
    [ key |-> key, stored |-> reg.value, readable |-> reg.readable,
      value |-> val, request |-> n ]

\* get_routing_policy that answers with the stored value even when the read
\* yields nothing
get_routing_policy_LastKnown(reg) == reg.value

\* get_routing_policy: the registry's value, or the fallback
get_routing_policy(reg) == IF reg.readable THEN reg.value ELSE _FALLBACK_POLICY

\* get_governance: the registry's value, or the fallback
get_governance(reg) == IF reg.readable THEN reg.value ELSE _FALLBACK_GOVERNANCE

\* ---------------------------------------------------------------- fallback executor

\* MaxAttempts with the retry budget given to every tier
MaxAttempts_EveryTier(pol, tier) == pol.max_local_retries

\* MaxAttempts with no attempt for a tier other than local
MaxAttempts_LocalOnly(pol, tier) == IF tier = "local" THEN pol.max_local_retries ELSE 0

\* max_attempts = policy.max_local_retries if tier == Tier.LOCAL else 1
MaxAttempts(pol, tier) == IF tier = "local" THEN pol.max_local_retries ELSE 1

\* StartIdx that starts every run at the head of the chain
StartIdx_Head(chain, route) == 1

\* StartIdx that takes the last position of decision.route in the chain
StartIdx_LastPosition(chain, route) ==
    IF \E i \in 1..Len(chain) : chain[i] = route
    THEN CHOOSE i \in 1..Len(chain) :
            /\ chain[i] = route
            /\ \A j \in (i + 1)..Len(chain) : chain[j] # route
    ELSE 1

\* start_idx: the first position of decision.route in the chain, else the head
StartIdx(chain, route) ==
    IF \E i \in 1..Len(chain) : chain[i] = route
    THEN CHOOSE i \in 1..Len(chain) :
            /\ chain[i] = route
            /\ \A j \in 1..(i - 1) : chain[j] # route
    ELSE 1

RECURSIVE EnterTier(_, _, _)
RECURSIVE AfterAttempts(_, _, _)

\* AfterAttempts that writes the escalation event on leaving local whatever
\* local_fail_count is
AfterAttempts_NoThreshold(pol, idx, lfc) ==
    IF pol.fallback_chain[idx] = "local"
    THEN [ pc |-> "log_escalation", idx |-> idx ]
    ELSE EnterTier(pol, idx + 1, lfc)

\* the top of the outer loop at chain position idx: where the executor next
\* suspends (an attempt, the escalation event, or the failed status)
EnterTier(pol, idx, lfc) ==
    IF idx > Len(pol.fallback_chain) THEN [ pc |-> "set_failed", idx |-> idx ]
    ELSE IF MaxAttempts(pol, pol.fallback_chain[idx]) > 0
    THEN [ pc |-> "attempt", idx |-> idx ]
    ELSE AfterAttempts(pol, idx, lfc)

\* after the attempt loop at chain position idx (exhausted or broken out of)
AfterAttempts(pol, idx, lfc) ==
    IF /\ pol.fallback_chain[idx] = "local"
       /\ lfc >= pol.escalation_rules.local_fail_count
    THEN [ pc |-> "log_escalation", idx |-> idx ]
    ELSE EnterTier(pol, idx + 1, lfc)

\* model = policy.models.get(tier.value, decision.model) once the outer loop
\* has come to position idx (past the end: the model of the last position)
TierModel(pol, d, idx, old) ==
    LET n == Len(pol.fallback_chain)
    IN  IF n = 0 THEN old
        ELSE ModelsGet(pol.models,
                       pol.fallback_chain[IF idx <= n THEN idx ELSE n], d.model)

\* Escalation counted from the head of the chain
Escalation_FromHead(idx, start) == idx - 1

\* escalation = tier_idx - start_idx
Escalation(idx, start) == idx - start

\* FinalDecision that keeps the escalation_level of the source Decision
FinalDecision_KeepLevel(d, tier, mdl, escalation, res) ==
    [ route |-> tier,
      model |-> mdl,
      reason |-> IF escalation > 0
                 THEN Append(d.reason, ReasonPart("escalated", escalation, 0))
                 ELSE d.reason,
      confidence |-> IF d.confidence - escalation * 15 > 50
                     THEN d.confidence - escalation * 15 ELSE 50,
      escalation_level |-> d.escalation_level,
      cost_estimate |-> estimate_cost(tier, res.token_count) ]

\* FinalDecision whose confidence has no floor
FinalDecision_NoFloor(d, tier, mdl, escalation, res) ==
    [ route |-> tier,
      model |-> mdl,
      reason |-> IF escalation > 0
                 THEN Append(d.reason, ReasonPart("escalated", escalation, 0))
                 ELSE d.reason,
      confidence |-> d.confidence - escalation * 15,
      escalation_level |-> escalation,
      cost_estimate |-> estimate_cost(tier, res.token_count) ]

\* the RouterDecision built when an attempt is accepted
FinalDecision(d, tier, mdl, escalation, res) ==
    [ route |-> tier,
      model |-> mdl,
      reason |-> IF escalation > 0
                 THEN Append(d.reason, ReasonPart("escalated", escalation, 0))
                 ELSE d.reason,
      confidence |-> IF d.confidence - escalation * 15 > 50
                     THEN d.confidence - escalation * 15 ELSE 50,
      escalation_level |-> escalation,
      cost_estimate |-> estimate_cost(tier, res.token_count) ]

\* the RouterResult of an accepted attempt
SuccessResult(tid, fd, res, tier, mdl, latency) ==
    [ task_id |-> tid, decision |-> fd, output |-> res.output, success |-> TRUE,
      tier_used |-> tier, model_used |-> mdl, latency_ms |-> latency,
      error |-> NoMessage ]

\* FailureResult whose Decision has its escalation_level reset
FailureResult_LevelReset(tid, d, latency, err) ==
    [ task_id |-> tid, decision |-> [ d EXCEPT !.escalation_level = 0 ],
      output |-> None, success |-> FALSE,
      tier_used |-> d.route, model_used |-> d.model, latency_ms |-> latency,
      error |-> << "All tiers exhausted. Last error: ", Str(err) >> ]

\* FailureResult that names the tier and model attempted last
FailureResult_LastAttempted(tid, d, latency, err) ==
    [ task_id |-> tid, decision |-> d, output |-> None, success |-> FALSE,
      tier_used |-> IF calls = << >> THEN d.route ELSE calls[Len(calls)].tier,
      model_used |-> IF calls = << >> THEN d.model ELSE calls[Len(calls)].model,
      latency_ms |-> latency,
      error |-> << "All tiers exhausted. Last error: ", Str(err) >> ]

\* the RouterResult when all tiers are exhausted
FailureResult(tid, d, latency, err) ==
    [ task_id |-> tid, decision |-> d, output |-> None, success |-> FALSE,
      tier_used |-> d.route, model_used |-> d.model, latency_ms |-> latency,
      error |-> << "All tiers exhausted. Last error: ", Str(err) >> ]

\* ---------------------------------------------------------------- initial states

\* a fallback_chain on which an escalation of 4 happens
LongChain == << "local", "market", "premium", "market", "premium" >>

Chains == UNION { [ 1..n -> Tier ] : n \in 0..MaxChain }

\* policy.models: the three defaults, or no entry at all
ModelMaps == { DefaultPolicy.models, [ t \in {} |-> "" ] }

\* policies that vary what the executor reads: the chain, the retry budget
\* and the escalation rules
ExecutorPolicies ==
    { [ DefaultPolicy EXCEPT
          !.fallback_chain = c,
          !.max_local_retries = r,
          !.escalation_rules = [ local_fail_count |-> f,
                                 invalid_json_escalate |-> j,
                                 context_overflow_escalate |-> TRUE ] ] :
      c \in Chains, r \in 0..MaxRetries, f \in { 1, 2 }, j \in BOOLEAN }

\* policies that vary what the decision engine reads, and the models mapping
\* (the default policy is one of them), and the long chain
DecisionPolicies ==
    { [ DefaultPolicy EXCEPT
          !.premium_trigger = t,
          !.escalation_rules.context_overflow_escalate = o,
          !.models = m ] :
      t \in { "sensitivity_high_only", "manual" }, o \in BOOLEAN, m \in ModelMaps }
    \cup { [ DefaultPolicy EXCEPT
                !.fallback_chain = LongChain,
                !.escalation_rules.invalid_json_escalate = j ] : j \in BOOLEAN }

\* the values the registry may hold under router_policy
Policies == ExecutorPolicies \cup DecisionPolicies

\* the value the registry holds under governance
RegistryGovernance == [ DefaultGovernance EXCEPT !.level = "strict" ]

\* RunRequest bodies: the prompt and the context by their lengths
RunRequests ==
    [ task_type : { "classify" }, sensitivity : { "normal", "high" },
      prompt_len : { 5 }, context_len : { 0, 20000 }, source : { "n8n" } ]

\* one request for each route compute_decision can give
RouteRequests ==
    { r \in RunRequests : r.sensitivity = "high" => r.context_len = 0 }

\* policies that vary what the decision engine reads, the threshold included
RoutePolicies ==
    { [ DefaultPolicy EXCEPT
          !.premium_trigger = t,
          !.escalation_rules.context_overflow_escalate = o,
          !.context_threshold_tokens = th ] :
      t \in { "sensitivity_high_only", "manual" }, o \in BOOLEAN,
      th \in { 0, 2, 4000, 5001 } }

\* RouteRequest bodies: a prompt of 1, 5 or 16004 characters, no context or a
\* context of 3 or 20000 characters
RouteRequestBodies ==
    [ task_type : { "classify" }, sensitivity : Sensitivity,
      prompt_len : { 1, 5, 16004 }, context_len : { 0, 3, 20000 } ]

\* ExecuteRequest bodies
ExecuteRequests ==
    [ tier : Tier, model : { None, "custom-model" }, prompt_len : { 5 },
      context_len : { 0 } ]

\* the locals of a handler that has not run yet, and no call issued for it
Fresh ==
    /\ policy = Unbound
    /\ governance = Unbound
    /\ task_id = None
    /\ decision = Unbound
    /\ decision_id = None
    /\ start_idx = 0
    /\ tier_idx = 0
    /\ attempt = 0
    /\ local_fail_count = 0
    /\ last_error = NoMessage
    /\ total_latency = 0
    /\ result = Unbound
    /\ final_decision = Unbound
    /\ router_result = Unbound
    /\ response = Unbound
    /\ calls = << >>
    /\ writes = << >>
    /\ db = NoRows
    /\ cancelled = << >>

Init ==
    /\ endpoint \in { "run", "execute", "route" }
    /\ IF endpoint = "run"
       THEN /\ regPolicy \in { Readable(p) : p \in Policies }
                              \cup { Unreadable(p) : p \in DecisionPolicies }
            /\ regGovernance \in IF regPolicy.value \in DecisionPolicies
                                 THEN { Readable(RegistryGovernance),
                                        Unreadable(RegistryGovernance) }
                                 ELSE { Readable(RegistryGovernance) }
            /\ request \in IF regPolicy.value \in DecisionPolicies
                           THEN RunRequests ELSE RouteRequests
            /\ pc = "get_policy"
            /\ model = None
       ELSE IF endpoint = "execute"
       THEN /\ regPolicy \in { Readable(p) : p \in DecisionPolicies }
                              \cup { Unreadable(p) : p \in DecisionPolicies }
            /\ regGovernance = Readable(RegistryGovernance)
            /\ request \in ExecuteRequests
            /\ pc = IF request.model = None THEN "x_get_policy" ELSE "x_log_task"
            /\ model = request.model
       ELSE /\ regPolicy \in { Readable(p) : p \in RoutePolicies }
                              \cup { Unreadable(p) : p \in RoutePolicies }
            /\ regGovernance \in { Readable(RegistryGovernance),
                                    Unreadable(RegistryGovernance) }
            /\ request \in RouteRequestBodies
            /\ pc = "r_get_policy"
            /\ model = None
    /\ Fresh
    /\ reads = << >>
    /\ served = 1
    /\ suspended = << >>

\* ---------------------------------------------------------------- /run: handle_run

\* policy = await db.get_routing_policy()
GetPolicy ==
    /\ endpoint = "run" /\ pc = "get_policy"
    /\ policy' = get_routing_policy(regPolicy)
    /\ reads' = Append(reads, RegistryRead("router_policy", regPolicy, policy', served))
    /\ pc' = "get_governance"
    /\ UNCHANGED <<suspended, served, cancelled, regPolicy, regGovernance, endpoint, request, governance,
                   task_id, decision, decision_id, start_idx, tier_idx, attempt,
                   model, local_fail_count, last_error, total_latency, result,
                   final_decision, router_result, response, calls, writes, db>>

\* governance = await db.get_governance()
GetGovernance ==
    /\ endpoint = "run" /\ pc = "get_governance"
    /\ governance' = get_governance(regGovernance)
    /\ reads' = Append(reads, RegistryRead("governance", regGovernance,
                                           governance', served))
    /\ pc' = "log_task"
    /\ UNCHANGED <<suspended, served, cancelled, regPolicy, regGovernance, endpoint, request, policy,
                   task_id, decision, decision_id, start_idx, tier_idx, attempt,
                   model, local_fail_count, last_error, total_latency, result,
                   final_decision, router_result, response, calls, writes, db>>

\* task_id = await db.log_task(...); a local uuid when it returns None
LogTask ==
    /\ endpoint = "run" /\ pc = "log_task"
    /\ writes' = Append(writes, TaskInsert(request.task_type, request.sensitivity,
                                           request.source))
    /\ \E ok \in BOOLEAN :
         LET w == log_task(db, ok)
         IN  /\ db' = w.rows
             /\ task_id' = OrLocalUuid(w.value)
             /\ pc' = AfterAwait(w, "set_routing")
    /\ UNCHANGED <<suspended, served, cancelled, reads, regPolicy, regGovernance, endpoint, request, policy, governance,
                   decision, decision_id, start_idx, tier_idx, attempt,
                   model, local_fail_count, last_error, total_latency, result,
                   final_decision, router_result, response, calls>>

\* await db.update_task_status(task_id, "routing"), then compute_decision
SetRouting ==
    /\ endpoint = "run" /\ pc = "set_routing"
    /\ writes' = Append(writes, StatusUpdate(task_id, "routing"))
    /\ \E ok \in BOOLEAN :
         LET w == update_task_status(db, ok)
         IN  /\ db' = w.rows
             /\ pc' = AfterAwait(w, "log_decision")
    /\ decision' = compute_decision(request, policy, governance)
    /\ UNCHANGED <<suspended, served, cancelled, reads, regPolicy, regGovernance, endpoint, request, policy, governance,
                   task_id, decision_id, start_idx, tier_idx, attempt,
                   model, local_fail_count, last_error, total_latency, result,
                   final_decision, router_result, response, calls>>

\* PolicySnapshot read anew from the registry
PolicySnapshot_Reread == get_routing_policy(regPolicy)

\* policy_snapshot=policy.model_dump()
PolicySnapshot == policy

\* decision_id = await db.log_decision(...)
LogDecision ==
    /\ endpoint = "run" /\ pc = "log_decision"
    /\ writes' = Append(writes, DecisionInsert(task_id, decision, PolicySnapshot,
                                               governance.level))
    /\ \E ok \in BOOLEAN :
         LET w == log_decision(db, ok)
         IN  /\ db' = w.rows
             /\ decision_id' = w.value
             /\ pc' = AfterAwait(w, "set_executing")
    /\ UNCHANGED <<suspended, served, cancelled, reads, regPolicy, regGovernance, endpoint, request, policy, governance,
                   task_id, decision, start_idx, tier_idx, attempt,
                   model, local_fail_count, last_error, total_latency, result,
                   final_decision, router_result, response, calls>>

\* await db.update_task_status(task_id, "executing"), then run_with_fallback
\* up to its first await
SetExecuting ==
    /\ endpoint = "run" /\ pc = "set_executing"
    /\ writes' = Append(writes, StatusUpdate(task_id, "executing"))
    /\ LET start == StartIdx(policy.fallback_chain, decision.route)
           next == EnterTier(policy, start, 0)
       IN  /\ start_idx' = start
           /\ tier_idx' = next.idx
           /\ model' = TierModel(policy, decision, next.idx, model)
           /\ \E ok \in BOOLEAN :
                LET w == update_task_status(db, ok)
                IN  /\ db' = w.rows
                    /\ pc' = AfterAwait(w, next.pc)
    /\ attempt' = 0
    /\ local_fail_count' = 0
    /\ last_error' = NoMessage
    /\ total_latency' = 0
    /\ UNCHANGED <<suspended, served, cancelled, reads, regPolicy, regGovernance, endpoint, request, policy, governance,
                   task_id, decision, decision_id, result,
                   final_decision, router_result, response, calls>>

\* ---------------------------------------------------------------- /run: run_with_fallback

\* the tier at the executor's chain position
CurrentTier == policy.fallback_chain[tier_idx]

\* ExecutionEvent with the decided tier in place of the attempted one
ExecutionEvent_Decided ==
    Event(task_id, decision_id, "execution", decision.route, model, result.success,
          result.latency_ms, result.token_count, result.error,
          Preview(result.output))

\* the execution event of the attempt just made
ExecutionEvent ==
    Event(task_id, decision_id, "execution", CurrentTier, model, result.success,
          result.latency_ms, result.token_count, result.error,
          Preview(result.output))

\* FinalResultEvent with the decided tier and model in place of the used ones
FinalResultEvent_Decided ==
    Event(task_id, decision_id, "final_result", decision.route,
          decision.model, router_result.success,
          router_result.latency_ms, 0, router_result.error,
          Preview(router_result.output))

\* the final_result event of the RouterResult
FinalResultEvent ==
    Event(task_id, decision_id, "final_result", router_result.tier_used,
          router_result.model_used, router_result.success,
          router_result.latency_ms, 0, router_result.error,
          Preview(router_result.output))

\* result = await execute_on_tier(tier, model, ...); total_latency += ...
Attempt ==
    /\ endpoint = "run" /\ pc = "attempt"
    /\ \E res \in AttemptResults(CurrentTier) :
         /\ result' = res
         /\ total_latency' = total_latency + res.latency_ms
         /\ calls' = Append(calls, [ idx |-> tier_idx, tier |-> CurrentTier,
                                     model |-> model, attempt |-> attempt,
                                     result |-> res ])
    /\ pc' = "log_execution"
    /\ UNCHANGED <<suspended, served, cancelled, reads, regPolicy, regGovernance, endpoint, request, policy, governance,
                   task_id, decision, decision_id, start_idx, tier_idx, attempt,
                   model, local_fail_count, last_error, final_decision,
                   router_result, response, writes, db>>

\* the code after the execution event's await w when the attempt is accepted:
\* final_decision is built (pydantic may reject it, which ends /run with a 500)
Accept(w) ==
    LET fd == FinalDecision(decision, CurrentTier, model,
                            Escalation(tier_idx, start_idx), result)
    IN  IF RouterDecisionValid(fd)
        THEN /\ final_decision' = fd
             /\ pc' = AfterAwait(w, "set_completed")
        ELSE /\ final_decision' = final_decision
             /\ pc' = "http500"

\* Failed that keeps the first error instead of the last
Failed_FirstError(w) ==
    LET lfc == IF CurrentTier = "local"
               THEN local_fail_count + 1 ELSE local_fail_count
        next == IF attempt + 1 < MaxAttempts(policy, CurrentTier)
                THEN [ pc |-> "attempt", idx |-> tier_idx ]
                ELSE AfterAttempts(policy, tier_idx, lfc)
    IN  /\ last_error' = IF last_error = NoMessage THEN result.error ELSE last_error
        /\ local_fail_count' = lfc
        /\ pc' = AfterAwait(w, next.pc)
        /\ tier_idx' = next.idx
        /\ attempt' = IF next.idx = tier_idx /\ next.pc = "attempt"
                      THEN attempt + 1 ELSE 0
        /\ model' = TierModel(policy, decision, next.idx, model)

\* the code after the execution event's await w when the attempt failed:
\* the next attempt on the tier, or what follows the attempt loop
Failed(w) ==
    LET lfc == IF CurrentTier = "local"
               THEN local_fail_count + 1 ELSE local_fail_count
        next == IF attempt + 1 < MaxAttempts(policy, CurrentTier)
                THEN [ pc |-> "attempt", idx |-> tier_idx ]
                ELSE AfterAttempts(policy, tier_idx, lfc)
    IN  /\ last_error' = result.error
        /\ local_fail_count' = lfc
        /\ pc' = AfterAwait(w, next.pc)
        /\ tier_idx' = next.idx
        /\ attempt' = IF next.idx = tier_idx /\ next.pc = "attempt"
                      THEN attempt + 1 ELSE 0
        /\ model' = TierModel(policy, decision, next.idx, model)

\* LogExecution that escalates on invalid JSON whatever the policy says
LogExecution_AlwaysEscalate ==
    /\ endpoint = "run" /\ pc = "log_execution"
    /\ writes' = Append(writes, ExecutionEvent)
    /\ \E ok \in BOOLEAN :
         LET w == log_event(db, ok)
         IN  /\ db' = w.rows
             /\ IF result.success
                THEN IF ~ _is_valid_json_output(result.output)
                     THEN /\ pc' = AfterAwait(w, "log_invalid_json")
                          /\ UNCHANGED <<final_decision, last_error,
                                         local_fail_count, tier_idx, attempt, model>>
                     ELSE /\ Accept(w)
                          /\ UNCHANGED <<last_error, local_fail_count, tier_idx,
                                         attempt, model>>
                ELSE /\ Failed(w)
                     /\ UNCHANGED final_decision
    /\ UNCHANGED <<suspended, served, cancelled, reads, regPolicy, regGovernance, endpoint,
                   request, policy, governance, task_id, decision, decision_id,
                   start_idx, total_latency, result, router_result, response,
                   calls>>

\* await db.log_event(event_type="execution", ...) and the code up to the
\* next await
LogExecution ==
    /\ endpoint = "run" /\ pc = "log_execution"
    /\ writes' = Append(writes, ExecutionEvent)
    /\ \E ok \in BOOLEAN :
         LET w == log_event(db, ok)
         IN  /\ db' = w.rows
             /\ IF result.success
                THEN IF /\ ~ _is_valid_json_output(result.output)
                        /\ policy.escalation_rules.invalid_json_escalate
                     THEN /\ pc' = AfterAwait(w, "log_invalid_json")
                          /\ UNCHANGED <<final_decision, last_error,
                                         local_fail_count, tier_idx, attempt, model>>
                     ELSE /\ Accept(w)
                          /\ UNCHANGED <<last_error, local_fail_count, tier_idx,
                                         attempt, model>>
                ELSE /\ Failed(w)
                     /\ UNCHANGED final_decision
    /\ UNCHANGED <<suspended, served, cancelled, reads, regPolicy, regGovernance, endpoint, request, policy, governance,
                   task_id, decision, decision_id, start_idx, total_latency,
                   result, router_result, response, calls>>

\* LogInvalidJson that goes on with the attempt loop where attempts remain
LogInvalidJson_Retry ==
    /\ endpoint = "run" /\ pc = "log_invalid_json"
    /\ writes' = Append(writes,
          Event(task_id, decision_id, "invalid_json_escalation", CurrentTier,
                model, FALSE, 0, 0, << "Output is not valid JSON" >>, NoMessage))
    /\ last_error' = << "Invalid JSON output" >>
    /\ LET next == IF attempt + 1 < MaxAttempts(policy, CurrentTier)
                   THEN [ pc |-> "attempt", idx |-> tier_idx ]
                   ELSE AfterAttempts(policy, tier_idx, local_fail_count)
       IN  /\ tier_idx' = next.idx
           /\ model' = TierModel(policy, decision, next.idx, model)
           /\ attempt' = IF next.idx = tier_idx /\ next.pc = "attempt"
                         THEN attempt + 1 ELSE 0
           /\ \E ok \in BOOLEAN :
                LET w == log_event(db, ok)
                IN  /\ db' = w.rows
                    /\ pc' = AfterAwait(w, next.pc)
    /\ UNCHANGED <<suspended, served, cancelled, reads, regPolicy, regGovernance, endpoint,
                   request, policy, governance, task_id, decision, decision_id,
                   start_idx, local_fail_count, total_latency, result,
                   final_decision, router_result, response, calls>>

\* LogInvalidJson that counts an invalid output of local as a local failure
LogInvalidJson_CountsFailure ==
    /\ endpoint = "run" /\ pc = "log_invalid_json"
    /\ writes' = Append(writes,
          Event(task_id, decision_id, "invalid_json_escalation", CurrentTier,
                model, FALSE, 0, 0, << "Output is not valid JSON" >>, NoMessage))
    /\ last_error' = << "Invalid JSON output" >>
    /\ local_fail_count' = IF CurrentTier = "local"
                           THEN local_fail_count + 1 ELSE local_fail_count
    /\ LET next == AfterAttempts(policy, tier_idx, local_fail_count')
       IN  /\ tier_idx' = next.idx
           /\ model' = TierModel(policy, decision, next.idx, model)
           /\ \E ok \in BOOLEAN :
                LET w == log_event(db, ok)
                IN  /\ db' = w.rows
                    /\ pc' = AfterAwait(w, next.pc)
    /\ attempt' = 0
    /\ UNCHANGED <<suspended, served, cancelled, reads, regPolicy, regGovernance, endpoint,
                   request, policy, governance, task_id, decision, decision_id,
                   start_idx, total_latency, result, final_decision,
                   router_result, response, calls>>

\* await db.log_event(event_type="invalid_json_escalation", ...);
\* last_error = "Invalid JSON output"; break
LogInvalidJson ==
    /\ endpoint = "run" /\ pc = "log_invalid_json"
    /\ writes' = Append(writes,
          Event(task_id, decision_id, "invalid_json_escalation", CurrentTier,
                model, FALSE, 0, 0, << "Output is not valid JSON" >>, NoMessage))
    /\ last_error' = << "Invalid JSON output" >>
    /\ LET next == AfterAttempts(policy, tier_idx, local_fail_count)
       IN  /\ tier_idx' = next.idx
           /\ model' = TierModel(policy, decision, next.idx, model)
           /\ \E ok \in BOOLEAN :
                LET w == log_event(db, ok)
                IN  /\ db' = w.rows
                    /\ pc' = AfterAwait(w, next.pc)
    /\ attempt' = 0
    /\ UNCHANGED <<suspended, served, cancelled, reads, regPolicy, regGovernance, endpoint, request, policy, governance,
                   task_id, decision, decision_id, start_idx, local_fail_count,
                   total_latency, result, final_decision, router_result,
                   response, calls>>

\* await db.log_event(event_type="escalation", ...), then the next tier
LogEscalation ==
    /\ endpoint = "run" /\ pc = "log_escalation"
    /\ writes' = Append(writes,
          Event(task_id, decision_id, "escalation", CurrentTier, model, FALSE,
                0, 0, << "Local failed N times", ToString(local_fail_count) >>,
                NoMessage))
    /\ LET next == EnterTier(policy, tier_idx + 1, local_fail_count)
       IN  /\ tier_idx' = next.idx
           /\ model' = TierModel(policy, decision, next.idx, model)
           /\ \E ok \in BOOLEAN :
                LET w == log_event(db, ok)
                IN  /\ db' = w.rows
                    /\ pc' = AfterAwait(w, next.pc)
    /\ attempt' = 0
    /\ UNCHANGED <<suspended, served, cancelled, reads, regPolicy, regGovernance, endpoint, request, policy, governance,
                   task_id, decision, decision_id, start_idx, local_fail_count,
                   last_error, total_latency, result, final_decision,
                   router_result, response, calls>>

\* await db.update_task_status(task_id, "completed"); return RouterResult(...)
SetCompleted ==
    /\ endpoint = "run" /\ pc = "set_completed"
    /\ writes' = Append(writes, StatusUpdate(task_id, "completed"))
    /\ \E ok \in BOOLEAN :
         LET w == update_task_status(db, ok)
         IN  /\ db' = w.rows
             /\ pc' = AfterAwait(w, "log_final")
    /\ router_result' = SuccessResult(task_id, final_decision, result,
                                      CurrentTier, model, total_latency)
    /\ UNCHANGED <<suspended, served, cancelled, reads, regPolicy, regGovernance, endpoint, request, policy, governance,
                   task_id, decision, decision_id, start_idx, tier_idx, attempt,
                   model, local_fail_count, last_error, total_latency, result,
                   final_decision, response, calls>>

\* SetFailed without the status update
SetFailed_NoStatus ==
    /\ endpoint = "run" /\ pc = "set_failed"
    /\ pc' = "log_final"
    /\ router_result' = FailureResult(task_id, decision, total_latency, last_error)
    /\ UNCHANGED <<suspended, served, cancelled, reads, regPolicy, regGovernance, endpoint, request, policy, governance,
                   task_id, decision, decision_id, start_idx, tier_idx, attempt,
                   model, local_fail_count, last_error, total_latency, result,
                   final_decision, response, calls, writes, db>>

\* await db.update_task_status(task_id, "failed"); return RouterResult(...)
SetFailed ==
    /\ endpoint = "run" /\ pc = "set_failed"
    /\ writes' = Append(writes, StatusUpdate(task_id, "failed"))
    /\ \E ok \in BOOLEAN :
         LET w == update_task_status(db, ok)
         IN  /\ db' = w.rows
             /\ pc' = AfterAwait(w, "log_final")
    /\ router_result' = FailureResult(task_id, decision, total_latency, last_error)
    /\ UNCHANGED <<suspended, served, cancelled, reads, regPolicy, regGovernance, endpoint, request, policy, governance,
                   task_id, decision, decision_id, start_idx, tier_idx, attempt,
                   model, local_fail_count, last_error, total_latency, result,
                   final_decision, response, calls>>

\* await db.log_event(event_type="final_result", ...); return result
LogFinal ==
    /\ endpoint = "run" /\ pc = "log_final"
    /\ writes' = Append(writes, FinalResultEvent)
    /\ \E ok \in BOOLEAN :
         LET w == log_event(db, ok)
         IN  /\ db' = w.rows
             /\ pc' = AfterAwait(w, "done")
    /\ response' = router_result
    /\ UNCHANGED <<suspended, served, cancelled, reads, regPolicy, regGovernance, endpoint, request, policy, governance,
                   task_id, decision, decision_id, start_idx, tier_idx, attempt,
                   model, local_fail_count, last_error, total_latency, result,
                   final_decision, router_result, calls>>

\* ---------------------------------------------------------------- /execute

\* policy = await db.get_routing_policy(), when the request names no model
ExecGetPolicy ==
    /\ endpoint = "execute" /\ pc = "x_get_policy"
    /\ policy' = get_routing_policy(regPolicy)
    /\ reads' = Append(reads, RegistryRead("router_policy", regPolicy, policy', served))
    /\ model' = ModelsGet(get_routing_policy(regPolicy).models, request.tier,
                          "llama3.1:8b")
    /\ pc' = "x_log_task"
    /\ UNCHANGED <<suspended, served, cancelled, regPolicy, regGovernance, endpoint, request, governance,
                   task_id, decision, decision_id, start_idx, tier_idx, attempt,
                   local_fail_count, last_error, total_latency, result,
                   final_decision, router_result, response, calls, writes, db>>

\* task_id = await db.log_task(task_type="direct_execute", ...)
ExecLogTask ==
    /\ endpoint = "execute" /\ pc = "x_log_task"
    /\ writes' = Append(writes, TaskInsert("direct_execute", "normal", "api"))
    /\ \E ok \in BOOLEAN :
         LET w == log_task(db, ok)
         IN  /\ db' = w.rows
             /\ task_id' = OrLocalUuid(w.value)
             /\ pc' = AfterAwait(w, "x_call")
    /\ UNCHANGED <<suspended, served, cancelled, reads, regPolicy, regGovernance, endpoint, request, policy, governance,
                   decision, decision_id, start_idx, tier_idx, attempt,
                   model, local_fail_count, last_error, total_latency, result,
                   final_decision, router_result, response, calls>>

\* result = await execute_on_tier(tier=request.tier, ...)
ExecCall ==
    /\ endpoint = "execute" /\ pc = "x_call"
    /\ \E key_set \in BOOLEAN, backend \in Backends :
         LET g == generate(request.tier, key_set, backend)
         IN  /\ result' = g.result
             /\ calls' = Append(calls,
                    [ idx |-> 0, tier |-> request.tier, model |-> model,
                      attempt |-> 0, result |-> g.result, key_set |-> key_set,
                      posted |-> g.posted,
                      backend |-> IF g.posted THEN backend ELSE NoBackend ])
    /\ pc' = "x_log_event"
    /\ UNCHANGED <<suspended, served, cancelled, reads, regPolicy, regGovernance, endpoint, request, policy, governance,
                   task_id, decision, decision_id, start_idx, tier_idx, attempt,
                   model, local_fail_count, last_error, total_latency,
                   final_decision, router_result, response, writes, db>>

\* await db.log_event(event_type="direct_execution", ...)
ExecLogEvent ==
    /\ endpoint = "execute" /\ pc = "x_log_event"
    /\ writes' = Append(writes,
          Event(task_id, None, "direct_execution", request.tier, model,
                result.success, result.latency_ms, result.token_count,
                result.error, Preview(result.output)))
    /\ \E ok \in BOOLEAN :
         LET w == log_event(db, ok)
         IN  /\ db' = w.rows
             /\ pc' = AfterAwait(w, "x_set_status")
    /\ UNCHANGED <<suspended, served, cancelled, reads, regPolicy, regGovernance, endpoint, request, policy, governance,
                   task_id, decision, decision_id, start_idx, tier_idx, attempt,
                   model, local_fail_count, last_error, total_latency, result,
                   final_decision, router_result, response, calls>>

\* ExecStatus that also wants the output to pass the JSON gate
ExecStatus_JsonGate(res) ==
    IF res.success /\ _is_valid_json_output(res.output)
    THEN "completed" ELSE "failed"

\* status = "completed" if result["success"] else "failed"
ExecStatus(res) == IF res.success THEN "completed" ELSE "failed"

\* await db.update_task_status(task_id, status); return {...}
ExecSetStatus ==
    /\ endpoint = "execute" /\ pc = "x_set_status"
    /\ writes' = Append(writes, StatusUpdate(task_id, ExecStatus(result)))
    /\ \E ok \in BOOLEAN :
         LET w == update_task_status(db, ok)
         IN  /\ db' = w.rows
             /\ pc' = AfterAwait(w, "done")
    /\ response' = [ task_id |-> task_id, tier |-> request.tier, model |-> model,
                     success |-> result.success, output |-> result.output,
                     latency_ms |-> result.latency_ms,
                     token_count |-> result.token_count, error |-> result.error ]
    /\ UNCHANGED <<suspended, served, cancelled, reads, regPolicy, regGovernance, endpoint, request, policy, governance,
                   task_id, decision, decision_id, start_idx, tier_idx, attempt,
                   model, local_fail_count, last_error, total_latency, result,
                   final_decision, router_result, calls>>

\* ---------------------------------------------------------------- /route

\* RunRequest(task_type=..., prompt=..., context=..., sensitivity=...): the
\* minimal RunRequest built for the decision engine
MinimalRunRequest(body) ==
    [ task_type |-> body.task_type, sensitivity |-> body.sensitivity,
      prompt_len |-> body.prompt_len, context_len |-> body.context_len,
      source |-> "n8n" ]

\* RouteResponse that answers with the decision of the fallback policy
RouteResponse_FallbackPolicy(req, pol, gov) ==
    [ decision |-> compute_decision(MinimalRunRequest(req), _FALLBACK_POLICY, gov),
      policy_used |-> pol, governance |-> gov ]

\* {"decision": ..., "policy_used": ..., "governance": ...}
RouteResponse(req, pol, gov) ==
    [ decision |-> compute_decision(MinimalRunRequest(req), pol, gov),
      policy_used |-> pol, governance |-> gov ]

\* policy = await db.get_routing_policy()
RouteGetPolicy ==
    /\ endpoint = "route" /\ pc = "r_get_policy"
    /\ policy' = get_routing_policy(regPolicy)
    /\ reads' = Append(reads, RegistryRead("router_policy", regPolicy, policy', served))
    /\ pc' = "r_get_governance"
    /\ UNCHANGED <<suspended, served, cancelled, regPolicy, regGovernance, endpoint, request,
                   governance, task_id, decision, decision_id, start_idx, tier_idx,
                   attempt, model, local_fail_count, last_error, total_latency,
                   result, final_decision, router_result, response, calls,
                   writes, db>>

\* governance = await db.get_governance(), then compute_decision and return
RouteGetGovernance ==
    /\ endpoint = "route" /\ pc = "r_get_governance"
    /\ governance' = get_governance(regGovernance)
    /\ reads' = Append(reads, RegistryRead("governance", regGovernance,
                                           governance', served))
    /\ decision' = RouteResponse(request, policy, governance').decision
    /\ response' = RouteResponse(request, policy, governance')
    /\ pc' = "done"
    /\ UNCHANGED <<suspended, served, cancelled, regPolicy, regGovernance, endpoint, request,
                   policy, task_id, decision_id, start_idx, tier_idx,
                   attempt, model, local_fail_count, last_error, total_latency,
                   result, final_decision, router_result, calls, writes, db>>

\* ---------------------------------------------------------------- specification

Next ==
    \/ GetPolicy
    \/ GetGovernance
    \/ LogTask
    \/ SetRouting
    \/ LogDecision
    \/ SetExecuting
    \/ Attempt
    \/ LogExecution
    \/ LogInvalidJson
    \/ LogEscalation
    \/ SetCompleted
    \/ SetFailed
    \/ LogFinal
    \/ ExecGetPolicy
    \/ ExecLogTask
    \/ ExecCall
    \/ ExecLogEvent
    \/ ExecSetStatus
    \/ RouteGetPolicy
    \/ RouteGetGovernance

Spec == Init /\ [][Next]_vars

\* ---------------------------------------------------------------- environment

\* a policy an operator stores in place of the default one
UpdatedPolicy ==
    [ DefaultPolicy EXCEPT
        !.fallback_chain = << "market", "premium" >>,
        !.max_local_retries = 1,
        !.premium_trigger = "manual",
        !.models = [ t \in Tier |-> "model-v2" ] ]

\* the values router_policy takes in the registry
EnvPolicies == { DefaultPolicy, UpdatedPolicy }

\* the requests sent to /run
EnvRequests == RouteRequests

\* a /run request arrives; the registry holds one of the policies under
\* router_policy, readable or not
InitEnv ==
    /\ endpoint = "run"
    /\ regPolicy \in { Readable(p) : p \in EnvPolicies }
                     \cup { Unreadable(p) : p \in EnvPolicies }
    /\ regGovernance = Readable(RegistryGovernance)
    /\ request \in EnvRequests
    /\ pc = "get_policy"
    /\ model = None
    /\ Fresh
    /\ reads = << >>
    /\ served = 1
    /\ suspended = << >>

\* the value under router_policy is replaced in the registry (by its owner,
\* not by the service), at any moment of a request
ChangePolicy ==
    /\ \E p \in EnvPolicies :
         /\ p # regPolicy.value
         /\ regPolicy' = Readable(p)
    /\ UNCHANGED <<suspended, served, cancelled, reads, regGovernance, endpoint, request, pc,
                   policy, governance, task_id, decision, decision_id, start_idx,
                   tier_idx, attempt, model, local_fail_count, last_error,
                   total_latency, result, final_decision, router_result, response,
                   calls, writes, db>>

\* the caller cancels /run while execute_on_tier is awaited. Either the
\* handler's task is cancelled: CancelledError is raised at the await, and
\* being no Exception it is caught neither by a registry or adapter
\* try/except nor by run(), so the handler is left at once. Or the server
\* does not cancel the task, and the handler runs on unaware.
CallerCancels ==
    /\ endpoint = "run" /\ pc = "attempt"
    /\ cancelled = << >>
    /\ cancelled' = << Len(calls) >>
    /\ pc' \in { "cancelled", "attempt" }
    /\ UNCHANGED <<suspended, served, reads, regPolicy, regGovernance, endpoint, request,
                   policy, governance, task_id, decision, decision_id, start_idx,
                   tier_idx, attempt, model, local_fail_count, last_error,
                   total_latency, result, final_decision, router_result, response,
                   calls, writes, db>>

\* the handler has finished one request and the next /run request arrives;
\* the registry holds the same values, and may have become readable or not
NextRequest ==
    /\ endpoint = "run"
    /\ pc \in { "done", "http500", "cancelled" }
    /\ served < MaxRequests
    /\ served' = served + 1
    /\ regPolicy' \in { Readable(regPolicy.value), Unreadable(regPolicy.value) }
    /\ request' \in EnvRequests
    /\ pc' = "get_policy"
    /\ model' = None
    /\ policy' = Unbound
    /\ governance' = Unbound
    /\ task_id' = None
    /\ decision' = Unbound
    /\ decision_id' = None
    /\ start_idx' = 0
    /\ tier_idx' = 0
    /\ attempt' = 0
    /\ local_fail_count' = 0
    /\ last_error' = NoMessage
    /\ total_latency' = 0
    /\ result' = Unbound
    /\ final_decision' = Unbound
    /\ router_result' = Unbound
    /\ response' = Unbound
    /\ calls' = << >>
    /\ writes' = << >>
    /\ db' = NoRows
    /\ cancelled' = << >>
    /\ UNCHANGED <<suspended, reads, regGovernance, endpoint>>

NextEnv ==
    \/ GetPolicy
    \/ GetGovernance
    \/ LogTask
    \/ SetRouting
    \/ LogDecision
    \/ SetExecuting
    \/ Attempt
    \/ LogExecution
    \/ LogInvalidJson
    \/ LogEscalation
    \/ SetCompleted
    \/ SetFailed
    \/ LogFinal
    \/ ChangePolicy
    \/ CallerCancels
    \/ NextRequest

\* /run requests served one after the other while the registry's policy
\* changes and callers cancel
SpecEnv == InitEnv /\ [][NextEnv]_vars

\* ---------------------------------------------------------------- views of a run

\* the /run handler has read its policy
RunStarted == endpoint = "run" /\ pc # "get_policy"

\* /run has returned a RouterResult to the caller
RunReturned == endpoint = "run" /\ pc = "done"

\* run_with_fallback has returned its RouterResult
FallbackReturned == endpoint = "run" /\ pc \in { "log_final", "done" }

IsEvent(w, event_type) == w.op = "event" /\ w.event_type = event_type

\* positions in writes of the events of a type
EventsOf(event_type) == { i \in DOMAIN writes : IsEvent(writes[i], event_type) }

\* number of execution events of a tier
ExecCount(t) ==
    Cardinality({ i \in EventsOf("execution") : writes[i].tier = t })

\* the attempt budget the policy gives one chain position of tier t
Budget(t) == IF t = "local" THEN policy.max_local_retries ELSE 1

\* chain positions from the start index on that hold tier t
PositionsOf(t) ==
    { i \in DOMAIN policy.fallback_chain :
        i >= start_idx /\ policy.fallback_chain[i] = t }

\* ---------------------------------------------------------------- claims

\* C1 as stated: for one /run, at most max_local_retries execution events
\* with tier=local and at most one execution event for each other tier,
\* whatever the fallback_chain
C1_Original ==
    RunStarted => \A t \in Tier : ExecCount(t) <= Budget(t)

\* C1 amended: the budget is per chain position: the execution events of a
\* tier number at most its budget (max_local_retries for local, 1 otherwise)
\* times the positions of the chain, from the start index on, that hold it
C1_BudgetPerPosition ==
    RunStarted =>
        \A t \in Tier :
            ExecCount(t) <= Cardinality(PositionsOf(t))
                            * (IF t = "local" THEN policy.max_local_retries ELSE 1)

\* a tier listed twice has had more execution events than one position allows
C1_Witness ==
    /\ RunReturned
    /\ \E t \in Tier :
         /\ Cardinality(PositionsOf(t)) >= 2
         /\ ExecCount(t) > Budget(t)

\* C2: the chain index of successive adapter attempts never decreases (and
\* never lies before the start index), and the Decision returned for an
\* accepted attempt has escalation_level = accepting index - start index
C2_MonotoneEscalation ==
    endpoint = "run" =>
        /\ \A i, j \in DOMAIN calls : i <= j => calls[i].idx <= calls[j].idx
        /\ \A i \in DOMAIN calls : calls[i].idx >= start_idx
        /\ (FallbackReturned /\ router_result.success) =>
              router_result.decision.escalation_level
                  = calls[Len(calls)].idx - start_idx

\* an attempt was accepted two positions past a start index that is not the head
C2_Witness ==
    /\ RunReturned
    /\ response.success
    /\ start_idx >= 2
    /\ response.decision.escalation_level >= 1
    /\ Len(calls) >= 2

\* C3: a /run that returns a Result has emitted exactly one final_result
\* event, the last write before returning, whose success, tier, model, error
\* and task_id are the Result's; no final_result event exists before
C3_OneFinalResultEvent ==
    endpoint = "run" =>
        IF pc = "done"
        THEN /\ Cardinality(EventsOf("final_result")) = 1
             /\ LET e == writes[Len(writes)]
                IN  /\ IsEvent(e, "final_result")
                    /\ e.success = response.success
                    /\ e.tier = response.tier_used
                    /\ e.model = response.model_used
                    /\ e.error_message = response.error
                    /\ e.task_id = response.task_id
        ELSE EventsOf("final_result") = {}

\* /run returned a success obtained on another tier than the decided one
C3_Witness ==
    /\ RunReturned
    /\ response.success
    /\ response.tier_used # decision.route

\* C4 as stated: every /run that returns a Result has emitted at least one
\* execution event
C4_Original ==
    RunReturned => EventsOf("execution") # {}

\* C4 amended: a /run that returns a Result has emitted an execution event
\* exactly when some chain position from the start index on has a positive
\* attempt budget (a tier other than local, or local with max_local_retries
\* >= 1); otherwise (an empty chain, or only local positions and
\* max_local_retries = 0) it returns a failure with no execution event
C4_ExecutionEventIffBudget ==
    RunReturned =>
        /\ EventsOf("execution") # {}
              <=> \E i \in DOMAIN policy.fallback_chain :
                     /\ i >= start_idx
                     /\ (policy.fallback_chain[i] = "local"
                            => policy.max_local_retries >= 1)
        /\ EventsOf("execution") = {} =>
              /\ ~ response.success
              /\ calls = << >>

\* /run returned without any execution event although the chain is not empty
C4_Witness ==
    /\ RunReturned
    /\ EventsOf("execution") = {}
    /\ policy.fallback_chain # << >>

\* ---------------------------------------------------------------- C5

IsExecutionEvent(w) == IsEvent(w, "execution")

\* the execution events, in the order they were issued
ExecutionEvents == SelectSeq(writes, IsExecutionEvent)

IsTerminalStatus(w) == w.op = "status" /\ w.status \in { "completed", "failed" }

\* every execution event describes the attempt of its rank, is issued after
\* that attempt and before the next attempt starts
EventsFollowAttempts ==
    LET events == ExecutionEvents
    IN  /\ Len(events) <= Len(calls)
        /\ Len(calls) <= Len(events) + 1
        /\ pc = "attempt" => Len(events) = Len(calls)
        /\ \A k \in DOMAIN events :
             /\ events[k].tier = calls[k].tier
             /\ events[k].model = calls[k].model
             /\ events[k].success = calls[k].result.success
             /\ events[k].error_message = calls[k].result.error

\* the place of a write in the order C5 states: task insert, decision insert,
\* execution events, final_result event, terminal status update (0: a write
\* the order does not name)
StatedRank(w) ==
    CASE w.op = "task_insert" -> 1
      [] w.op = "decision_insert" -> 2
      [] IsEvent(w, "execution") -> 3
      [] IsEvent(w, "final_result") -> 4
      [] IsTerminalStatus(w) -> 5
      [] OTHER -> 0

\* the same with the terminal status update before the final_result event
IssuedRank(w) ==
    CASE w.op = "task_insert" -> 1
      [] w.op = "decision_insert" -> 2
      [] IsEvent(w, "execution") -> 3
      [] IsTerminalStatus(w) -> 4
      [] IsEvent(w, "final_result") -> 5
      [] OTHER -> 0

\* C5 as stated: within one /run the writes are issued in the order task
\* insert, decision insert, execution events in attempt order, final_result
\* event, status update to completed/failed
C5_Original ==
    endpoint = "run" =>
        /\ EventsFollowAttempts
        /\ LET named == SelectSeq(writes, LAMBDA w : StatedRank(w) > 0)
           IN  \A i \in 1..(Len(named) - 1) :
                  StatedRank(named[i]) <= StatedRank(named[i + 1])

\* C5 amended: the order is task insert, decision insert, execution events in
\* attempt order (each after its attempt and before the next one starts),
\* status update to completed/failed, and the final_result event last
C5_StatusBeforeFinalResult ==
    endpoint = "run" =>
        /\ EventsFollowAttempts
        /\ LET named == SelectSeq(writes, LAMBDA w : IssuedRank(w) > 0)
           IN  /\ \A i \in 1..(Len(named) - 1) :
                     /\ IssuedRank(named[i]) <= IssuedRank(named[i + 1])
                     /\ IssuedRank(named[i]) = IssuedRank(named[i + 1])
                           => IssuedRank(named[i]) = 3
               /\ pc = "done" =>
                     \A r \in 1..5 : r # 3 =>
                         \E i \in DOMAIN named : IssuedRank(named[i]) = r

\* /run returned after attempts on two tiers
C5_Witness ==
    /\ RunReturned
    /\ Len(ExecutionEvents) >= 2
    /\ ExecutionEvents[1].tier # ExecutionEvents[2].tier

\* ---------------------------------------------------------------- C6

IsStatusWrite(w) == w.op \in { "task_insert", "status" }

\* the status values written for the task, in order (the insert writes received)
StatusWrites == SelectSeq(writes, IsStatusWrite)

StatusRank(status) ==
    CASE status = "received" -> 1
      [] status = "routing" -> 2
      [] status = "executing" -> 3
      [] status \in { "completed", "failed" } -> 4

\* C6: the status values written for a task only move forward in the order
\* received, routing, executing, completed/failed; nothing is written after
\* completed or failed, and a returned response of /run or /execute has
\* exactly one of them (/route creates no task)
C6_StatusForward ==
    /\ \A i, j \in DOMAIN StatusWrites :
          i < j => StatusRank(StatusWrites[i].status)
                      < StatusRank(StatusWrites[j].status)
    /\ (pc = "done" /\ endpoint \in { "run", "execute" }) =>
          Cardinality({ i \in DOMAIN StatusWrites :
                          StatusRank(StatusWrites[i].status) = 4 }) = 1

\* /run returned a failure after writing received, routing, executing, failed
C6_Witness ==
    /\ RunReturned
    /\ Len(StatusWrites) = 4
    /\ StatusWrites[4].status = "failed"
    /\ calls # << >>

\* ---------------------------------------------------------------- C7

\* what the adapters answered, in order
Responses == [ k \in DOMAIN calls |-> calls[k].result ]

RECURSIVE NextPosition(_, _, _)

\* the next place an attempt is made (or the exhaustion of the chain) from
\* nxt, the writes in between left out
NextPosition(pol, nxt, lfc) ==
    IF nxt.pc = "log_escalation"
    THEN NextPosition(pol, EnterTier(pol, nxt.idx + 1, lfc), lfc)
    ELSE nxt

RECURSIVE Outcome(_, _, _, _, _)

\* the outcome of run_with_fallback as a function of the policy, the decision
\* and the adapters' answers alone: st is the executor at answer k
Outcome(pol, d, resp, k, st) ==
    LET chain == pol.fallback_chain
        start == StartIdx(chain, d.route)
    IN  IF st.pos.pc = "set_failed"
        THEN [ kind |-> "result",
               result |-> FailureResult("-", d, st.lat, st.err) ]
        ELSE IF k > Len(resp) THEN [ kind |-> "pending" ]
        ELSE
          LET res == resp[k]
              idx == st.pos.idx
              tier == chain[idx]
              mdl == ModelsGet(pol.models, tier, d.model)
              lat == st.lat + res.latency_ms
          IN  IF res.success /\ (\/ _is_valid_json_output(res.output)
                                 \/ ~ pol.escalation_rules.invalid_json_escalate)
              THEN LET fd == FinalDecision(d, tier, mdl, idx - start, res)
                   IN  IF RouterDecisionValid(fd)
                       THEN [ kind |-> "result",
                              result |-> SuccessResult("-", fd, res, tier, mdl, lat) ]
                       ELSE [ kind |-> "http500" ]
              ELSE IF res.success
              THEN Outcome(pol, d, resp, k + 1,
                     [ pos |-> NextPosition(pol, AfterAttempts(pol, idx, st.lfc), st.lfc),
                       att |-> 0, lfc |-> st.lfc, lat |-> lat,
                       err |-> << "Invalid JSON output" >> ])
              ELSE LET lfc == IF tier = "local" THEN st.lfc + 1 ELSE st.lfc
                   IN  IF st.att + 1 < MaxAttempts(pol, tier)
                       THEN Outcome(pol, d, resp, k + 1,
                              [ pos |-> st.pos, att |-> st.att + 1, lfc |-> lfc,
                                lat |-> lat, err |-> res.error ])
                       ELSE Outcome(pol, d, resp, k + 1,
                              [ pos |-> NextPosition(pol, AfterAttempts(pol, idx, lfc), lfc),
                                att |-> 0, lfc |-> lfc, lat |-> lat,
                                err |-> res.error ])

\* the outcome of /run for a policy snapshot, a request and the adapters'
\* answers, whatever the registry does with the writes
RunOutcome(pol, gov, req, resp) ==
    LET d == compute_decision(req, pol, gov)
    IN  Outcome(pol, d, resp, 1,
                [ pos |-> NextPosition(pol,
                             EnterTier(pol, StartIdx(pol.fallback_chain, d.route), 0), 0),
                  att |-> 0, lfc |-> 0, lat |-> 0, err |-> NoMessage ])

\* C7: whichever registry writes fail, /run ends as the policy snapshot, the
\* request and the adapters' answers alone determine: it returns the same
\* Result but for its task_id (and never stops on a failed write)
C7_WriteFailuresDoNotMatter ==
    endpoint = "run" =>
        /\ pc = "done" =>
             LET o == RunOutcome(policy, governance, request, Responses)
             IN  /\ o.kind = "result"
                 /\ [ response EXCEPT !.task_id = "-" ] = o.result
        /\ pc = "http500" =>
             RunOutcome(policy, governance, request, Responses).kind = "http500"

\* /run returned a success on a later tier although the registry refused the
\* task insert and the decision insert
C7_Witness ==
    /\ RunReturned
    /\ response.success
    /\ response.task_id = LocalTaskId
    /\ ~ db.task /\ ~ db.decision
    /\ decision_id = None
    /\ Len(calls) >= 2

\* ---------------------------------------------------------------- C8

\* C8 as stated: the escalation_level of the Decision of every Result is the
\* number of chain positions from the start index to the position that
\* produced the output, or to the last attempted position on failure
C8_Original ==
    (RunReturned /\ calls # << >>) =>
        response.decision.escalation_level = calls[Len(calls)].idx - start_idx

\* the escalation_level compute_decision gives each route
RuleLevel(route) ==
    CASE route = "local" -> 0
      [] route = "market" -> 1
      [] route = "premium" -> 2

\* C8 amended: on success the escalation_level is the number of positions
\* from the start index to the accepting position; when all tiers are
\* exhausted the Result carries the Decision of compute_decision unchanged,
\* whose escalation_level is that of its rule (local 0, market 1, premium 2)
C8_LevelOfResult ==
    RunReturned =>
        IF response.success
        THEN response.decision.escalation_level
                = calls[Len(calls)].idx - start_idx
        ELSE /\ response.decision = compute_decision(request, policy, governance)
             /\ response.decision.escalation_level
                   = RuleLevel(response.decision.route)

\* all tiers were exhausted and the level is not the distance to the last
\* attempted position
C8_Witness ==
    /\ RunReturned
    /\ ~ response.success
    /\ calls # << >>
    /\ response.decision.escalation_level # calls[Len(calls)].idx - start_idx

\* ---------------------------------------------------------------- C9

\* the decided tier succeeded with valid JSON on the first attempt of the run
FirstAttemptAccepted ==
    /\ RunReturned
    /\ response.success
    /\ Len(calls) = 1
    /\ calls[1].tier = decision.route
    /\ _is_valid_json_output(calls[1].result.output)

\* C9 as stated: the Result then carries the escalation_level and confidence
\* of the decision rule: level 2, confidence 0.95, tier premium for
\* sensitivity=high under sensitivity_high_only; level 1, tier market for a
\* context overflow
C9_Original ==
    FirstAttemptAccepted =>
        /\ response.tier_used = decision.route
        /\ decision.route = "premium" =>
              /\ response.decision.escalation_level = 2
              /\ response.decision.confidence = 95
        /\ decision.route = "market" =>
              response.decision.escalation_level = 1

\* C9 amended: the Result then has tier_used equal to the decided tier and
\* the confidence of the decision rule (0.95 premium, 0.85 market), and its
\* escalation_level is 0, no tier having been skipped
C9_FirstAttemptLevelZero ==
    FirstAttemptAccepted =>
        /\ response.tier_used = decision.route
        /\ response.decision.route = decision.route
        /\ response.decision.escalation_level = 0
        /\ response.decision.confidence = decision.confidence
        /\ decision.route = "premium" =>
              /\ request.sensitivity = "high"
              /\ policy.premium_trigger = "sensitivity_high_only"
              /\ response.decision.confidence = 95
        /\ decision.route = "market" => response.decision.confidence = 85

\* a sensitivity=high request answered by premium on the first attempt
C9_Witness ==
    /\ FirstAttemptAccepted
    /\ request.sensitivity = "high"
    /\ response.tier_used = "premium"

\* ---------------------------------------------------------------- C10

\* the last attempt made was accepted
LastAccepted ==
    /\ calls # << >>
    /\ calls[Len(calls)].result.success
    /\ \/ _is_valid_json_output(calls[Len(calls)].result.output)
       \/ ~ policy.escalation_rules.invalid_json_escalate

\* str() of the error of the last rejected attempt
LastRejectedError ==
    IF calls = << >> THEN "None"
    ELSE IF calls[Len(calls)].result.success THEN "Invalid JSON output"
    ELSE calls[Len(calls)].result.error[1]

\* C10: when no attempt is accepted, run_with_fallback writes status failed
\* and returns success=false, no output, tier_used = the decided tier and
\* error = "All tiers exhausted. Last error: " + the last rejected attempt's
\* error ("Invalid JSON output" for an invalid output, None without attempt)
C10_AllTiersExhausted ==
    (FallbackReturned /\ ~ LastAccepted) =>
        /\ ~ router_result.success
        /\ router_result.output = None
        /\ router_result.tier_used
              = compute_decision(request, policy, governance).route
        /\ router_result.error
              = << "All tiers exhausted. Last error: ", LastRejectedError >>
        /\ StatusWrites[Len(StatusWrites)].status = "failed"

\* exhausted after a failed attempt followed by an invalid-JSON success
C10_Witness ==
    /\ RunReturned
    /\ ~ response.success
    /\ Len(calls) >= 2
    /\ ~ calls[1].result.success
    /\ calls[Len(calls)].result.success

\* ---------------------------------------------------------------- C11

\* the position in writes of the execution event of the k-th adapter call
ExecutionEventOf(k) ==
    CHOOSE i \in DOMAIN writes :
        /\ IsExecutionEvent(writes[i])
        /\ Cardinality({ j \in 1..i : IsExecutionEvent(writes[j]) }) = k

\* the k-th adapter call succeeded with output that fails the JSON gate, under
\* a policy that escalates on invalid JSON
InvalidJsonCall(k) ==
    /\ calls[k].result.success
    /\ ~ _is_valid_json_output(calls[k].result.output)
    /\ policy.escalation_rules.invalid_json_escalate

\* C11: an attempt that succeeds with output failing the JSON gate, under
\* invalid_json_escalate, has its execution event (success=true) followed at
\* once by one invalid_json_escalation event (success=false); no further
\* attempt is made at its chain position, and the next attempt, if any, is at
\* the next chain position that has an attempt budget (the very next position
\* whenever that one has a budget, as it always has for max_local_retries >= 1)
C11_InvalidJsonEscalates ==
    endpoint = "run" =>
        /\ \A i \in EventsOf("invalid_json_escalation") :
             /\ i > 1
             /\ IsExecutionEvent(writes[i - 1])
             /\ writes[i - 1].success
             /\ ~ writes[i].success
             /\ writes[i].tier = writes[i - 1].tier
        /\ \A k \in DOMAIN calls :
             InvalidJsonCall(k) =>
                /\ Cardinality(EventsOf("execution")) >= k =>
                      LET e == ExecutionEventOf(k)
                      IN  /\ writes[e].success
                          /\ writes[e].tier = calls[k].tier
                          /\ Len(writes) > e =>
                                IsEvent(writes[e + 1], "invalid_json_escalation")
                /\ (k = Len(calls) /\ pc = "attempt") => tier_idx > calls[k].idx
                /\ k < Len(calls) =>
                      /\ calls[k + 1].idx > calls[k].idx
                      /\ \A i \in (calls[k].idx + 1)..(calls[k + 1].idx - 1) :
                            MaxAttempts(policy, policy.fallback_chain[i]) = 0
                      /\ MaxAttempts(policy, policy.fallback_chain[calls[k].idx + 1]) >= 1
                            => calls[k + 1].idx = calls[k].idx + 1

\* the first local attempt of a run with a retry budget of two returned
\* invalid JSON, and the run went on to another attempt
C11_Witness ==
    /\ RunReturned
    /\ Len(calls) >= 2
    /\ InvalidJsonCall(1)
    /\ calls[1].tier = "local"
    /\ policy.max_local_retries >= 2
    /\ calls[2].idx = calls[1].idx + 1
    /\ Cardinality(EventsOf("invalid_json_escalation")) >= 1

\* ---------------------------------------------------------------- C12

\* the handler has evaluated compute_decision on its request and its policy
Decided ==
    \/ endpoint = "run" /\ pc \notin { "get_policy", "get_governance", "log_task",
                                        "set_routing" }
    \/ endpoint = "route" /\ pc = "done"

\* C12: for a request with sensitivity=high and a policy with
\* premium_trigger = "sensitivity_high_only", compute_decision returns
\* route=premium, confidence 0.95 and escalation_level 2, whatever the sizes of
\* prompt and context, the threshold and context_overflow_escalate
C12_SensitivityHighIsPremium ==
    ( /\ Decided
      /\ request.sensitivity = "high"
      /\ policy.premium_trigger = "sensitivity_high_only" )
    => /\ decision.route = "premium"
       /\ decision.confidence = 95
       /\ decision.escalation_level = 2

\* a sensitivity=high request whose context overflows the threshold of a
\* policy that escalates on overflow was decided premium
C12_Witness ==
    /\ endpoint = "route" /\ pc = "done"
    /\ request.sensitivity = "high"
    /\ policy.premium_trigger = "sensitivity_high_only"
    /\ request.context_len = 20000
    /\ policy.context_threshold_tokens = 0
    /\ policy.escalation_rules.context_overflow_escalate
    /\ response.decision.route = "premium"

\* ---------------------------------------------------------------- C13

\* floor(len(prompt)/4) + floor(len(context)/4)
FloorTokens(req) == (req.prompt_len \div 4) + (req.context_len \div 4)

\* C13: for a request with sensitivity other than high whose
\* floor(len(prompt)/4) + floor(len(context)/4) exceeds context_threshold_tokens
\* and a policy with context_overflow_escalate, compute_decision returns
\* route=market
C13_ContextOverflowIsMarket ==
    ( /\ Decided
      /\ request.sensitivity # "high"
      /\ FloorTokens(request) > policy.context_threshold_tokens
      /\ policy.escalation_rules.context_overflow_escalate )
    => decision.route = "market"

\* a normal request whose prompt alone overflows the default threshold was
\* decided market
C13_Witness ==
    /\ endpoint = "route" /\ pc = "done"
    /\ request.sensitivity = "normal"
    /\ request.prompt_len = 16004
    /\ request.context_len = 0
    /\ policy.context_threshold_tokens = 4000
    /\ response.decision.route = "market"

\* ---------------------------------------------------------------- C14

\* Governance values: the defaults, the registry's, and one with every field
\* away from its default
Governances ==
    { DefaultGovernance, RegistryGovernance,
      [ level |-> "lockdown", require_audit |-> FALSE,
        require_explanation |-> FALSE, max_cost_per_request |-> 0,
        premium_approval_required |-> TRUE ] }

\* C14: compute_decision depends on the request and the policy only: every
\* Governance gives the Decision the handler computed, and the step that
\* evaluates it issues no call but the one the handler awaited before it (the
\* status update of /run, the governance read of /route)
C14_DecisionIgnoresGovernance ==
    /\ [](Decided =>
            \A g \in Governances :
                compute_decision(MinimalRunRequest(request), policy, g) = decision)
    /\ [][ (~ Decided /\ Decided') =>
              /\ calls' = calls
              /\ IF endpoint = "run"
                 THEN /\ reads' = reads
                      /\ writes' = Append(writes, StatusUpdate(task_id, "routing"))
                 ELSE /\ writes' = writes
                      /\ reads' = Append(reads, RegistryRead("governance",
                                                             regGovernance,
                                                             governance', served)) ]_vars

\* the same premium decision was reached under the registry's governance and
\* under the default one
C14_Witness ==
    /\ Decided
    /\ decision.route = "premium"
    /\ governance = RegistryGovernance
    /\ compute_decision(request, policy, DefaultGovernance) = decision

\* ---------------------------------------------------------------- C15

\* the reads of router_policy, in order: one by each /run request
PolicyReads == SelectSeq(reads, LAMBDA r : r.key = "router_policy")

\* C15 as stated: two consecutive /run requests use the same Policy snapshot
\* whenever the value stored under router_policy is the same at both reads,
\* also when the read of one of them fails
C15_Original ==
    \A i \in DOMAIN PolicyReads :
        ( /\ i + 1 \in DOMAIN PolicyReads
          /\ PolicyReads[i].stored = PolicyReads[i + 1].stored )
        => PolicyReads[i].value = PolicyReads[i + 1].value

\* C15 amended: with the same value stored at both reads, two consecutive /run
\* requests use the same snapshot when both reads succeed (the stored value)
\* or both fail (the built-in default policy); when exactly one read fails,
\* that request uses the built-in default and the other the stored value, so
\* the snapshots are equal only if the stored value is the default policy
C15_SameSnapshotWhenBothReadAlike ==
    \A i \in DOMAIN PolicyReads :
        ( /\ i + 1 \in DOMAIN PolicyReads
          /\ PolicyReads[i].stored = PolicyReads[i + 1].stored )
        => LET a == PolicyReads[i]
               b == PolicyReads[i + 1]
           IN  /\ a.value = IF a.readable THEN a.stored ELSE _FALLBACK_POLICY
               /\ b.value = IF b.readable THEN b.stored ELSE _FALLBACK_POLICY
               /\ a.readable = b.readable => a.value = b.value
               /\ a.value = b.value
                     <=> (a.readable = b.readable \/ a.stored = _FALLBACK_POLICY)

\* two consecutive requests: the registry held the same updated policy, the
\* first read yielded it and the second failed, and the snapshots differ
C15_Witness ==
    /\ Len(PolicyReads) = 2
    /\ PolicyReads[1].stored = UpdatedPolicy
    /\ PolicyReads[2].stored = UpdatedPolicy
    /\ PolicyReads[1].readable
    /\ ~ PolicyReads[2].readable
    /\ PolicyReads[1].value # PolicyReads[2].value
    /\ policy = _FALLBACK_POLICY

\* ---------------------------------------------------------------- C16

\* the handler of the request has ended
HandlerEnded == pc \in { "done", "http500", "cancelled" }

\* C16: once the caller has cancelled a /run request while an adapter attempt
\* was in flight, no further adapter attempt is started for the request, and a
\* status update to failed is issued for its task
C16_Original ==
    (endpoint = "run" /\ cancelled # << >>) =>
        /\ Len(calls) <= cancelled[1] + 1
        /\ ~ (pc = "attempt" /\ Len(calls) = cancelled[1] + 1)
        /\ HandlerEnded =>
              \E i \in DOMAIN writes : writes[i] = StatusUpdate(task_id, "failed")

\* ---------------------------------------------------------------- C17

\* the last attempt was accepted, more than 3 chain positions after the start
\* index, and its execution event has been written
AcceptedBeyondThree ==
    /\ endpoint = "run"
    /\ calls # << >>
    /\ pc # "log_execution"
    /\ calls[Len(calls)].result.success
    /\ \/ _is_valid_json_output(calls[Len(calls)].result.output)
       \/ ~ policy.escalation_rules.invalid_json_escalate
    /\ calls[Len(calls)].idx - start_idx > 3

\* C17: the Decision of every returned Result has escalation_level in 0..3,
\* and an attempt accepted more than 3 chain positions after the start index
\* gives a success Result whose escalation_level is clamped to 3
C17_Original ==
    /\ RunReturned => response.decision.escalation_level \in 0..3
    /\ AcceptedBeyondThree =>
          /\ pc \in { "set_completed", "log_final", "done" }
          /\ final_decision.escalation_level = 3
          /\ pc = "done" => response.success

\* ---------------------------------------------------------------- C18

\* the three writes of an /execute request whose adapter call returned res
ExecuteWrites(res) ==
    << TaskInsert("direct_execute", "normal", "api"),
       Event(task_id, None, "direct_execution", request.tier, model, res.success,
             res.latency_ms, res.token_count, res.error, Preview(res.output)),
       StatusUpdate(task_id, IF res.success THEN "completed" ELSE "failed") >>

\* C18: an /execute request inserts one task, then calls the adapter of the
\* requested tier exactly once, then writes one direct_execution event with
\* the attempt's outcome, then writes status completed if the attempt
\* succeeded and failed otherwise, and returns the attempt's outcome; it
\* computes no decision and writes nothing else
C18_ExecuteOnce ==
    endpoint = "execute" =>
        /\ decision = Unbound /\ decision_id = None
        /\ Len(calls) <= 1
        /\ Len(writes) <= 3
        /\ writes # << >> => writes[1] = TaskInsert("direct_execute", "normal", "api")
        /\ calls # << >> =>
              /\ Len(writes) >= 1
              /\ calls[1].tier = request.tier
              /\ calls[1].model = model
              /\ request.model # None => calls[1].model = request.model
              /\ \A i \in DOMAIN writes : writes[i] = ExecuteWrites(calls[1].result)[i]
        /\ Len(writes) >= 2 => Len(calls) = 1
        /\ pc = "done" =>
              /\ Len(calls) = 1
              /\ writes = ExecuteWrites(calls[1].result)
              /\ response.tier = request.tier
              /\ response.success = calls[1].result.success
              /\ response.output = calls[1].result.output
              /\ response.error = calls[1].result.error
              /\ response.token_count = calls[1].result.token_count
              /\ response.latency_ms = calls[1].result.latency_ms

\* an /execute request returned an attempt that succeeded with output that
\* is no JSON, its task completed
C18_Witness ==
    /\ endpoint = "execute" /\ pc = "done"
    /\ response.success
    /\ ~ _is_valid_json_output(response.output)
    /\ writes[Len(writes)] = StatusUpdate(task_id, "completed")

\* ---------------------------------------------------------------- C19

\* C19: a /route request returns the Decision compute_decision gives for the
\* policy it read (the stored value, or the default when the read fails),
\* with that policy and governance; it calls no adapter and writes no task
\* row, status update, decision or event
C19_RouteOnlyDecides ==
    endpoint = "route" =>
        /\ calls = << >>
        /\ writes = << >>
        /\ db = NoRows
        /\ task_id = None
        /\ pc = "done" =>
              /\ Len(reads) = 2
              /\ reads[1].key = "router_policy" /\ reads[2].key = "governance"
              /\ response.policy_used = reads[1].value
              /\ reads[1].value = IF regPolicy.readable THEN regPolicy.value
                                   ELSE _FALLBACK_POLICY
              /\ response.governance = reads[2].value
              /\ response.decision
                    = compute_decision(MinimalRunRequest(request), reads[1].value,
                                       reads[2].value)

\* /route answered market under a policy read from the registry, where the
\* default policy gives local
C19_Witness ==
    /\ endpoint = "route" /\ pc = "done"
    /\ regPolicy.readable
    /\ response.decision.route = "market"
    /\ compute_decision(MinimalRunRequest(request), _FALLBACK_POLICY,
                        governance).route = "local"

\* ---------------------------------------------------------------- C20

\* the policy reads issued by the request being served
OwnPolicyReads == SelectSeq(PolicyReads, LAMBDA r : r.request = served)

\* C20: a /run request reads the policy exactly once, and whatever the
\* registry holds afterwards, the value of that read is the policy of its
\* decision, of every fallback attempt, and the policy_snapshot persisted with
\* the decision
C20_OneSnapshotPerRequest ==
    (endpoint = "run" /\ pc # "get_policy") =>
        /\ Len(OwnPolicyReads) = 1
        /\ policy = OwnPolicyReads[1].value
        /\ LET snapshot == OwnPolicyReads[1].value
           IN  /\ Decided => decision = compute_decision(request, snapshot, governance)
               /\ \A i \in DOMAIN writes :
                     writes[i].op = "decision_insert" =>
                        /\ writes[i].policy_snapshot = snapshot
                        /\ writes[i].decision
                              = compute_decision(request, snapshot, governance)
               /\ \A k \in DOMAIN calls :
                     /\ calls[k].idx \in DOMAIN snapshot.fallback_chain
                     /\ calls[k].idx >= StartIdx(snapshot.fallback_chain, decision.route)
                     /\ calls[k].tier = snapshot.fallback_chain[calls[k].idx]
                     /\ calls[k].model
                           = ModelsGet(snapshot.models, calls[k].tier, decision.model)
                     /\ calls[k].attempt < MaxAttempts(snapshot, calls[k].tier)

\* the registry's policy was replaced after the request had read it, and the
\* request has since persisted its decision and made two attempts
C20_Witness ==
    /\ endpoint = "run" /\ pc = "done"
    /\ Len(OwnPolicyReads) = 1
    /\ OwnPolicyReads[1].readable
    /\ OwnPolicyReads[1].stored = DefaultPolicy
    /\ regPolicy.value = UpdatedPolicy
    /\ \E i \in DOMAIN writes :
          /\ writes[i].op = "decision_insert"
          /\ writes[i].policy_snapshot # get_routing_policy(regPolicy)
    /\ Len(calls) >= 2
    /\ calls[1].tier = "local"

\* ---------------------------------------------------------------- C21

\* run_with_fallback has computed its start index
ExecutorStarted == endpoint = "run" /\ start_idx > 0

\* the chain positions the adapter calls were made at, in order
CallPositions == [ k \in DOMAIN calls |-> calls[k].idx ]

\* the chain positions from a to b that have an attempt budget
BudgetedPositions(a, b) ==
    { p \in a..b : p \in DOMAIN policy.fallback_chain
                   /\ MaxAttempts(policy, policy.fallback_chain[p]) > 0 }

\* C21: the start index is the first position of Decision.route in the
\* fallback chain, or the head of the chain when the route is not in it; the
\* attempts are made at chain positions in configured order, each on the tier
\* configured there, none before the start index and none with an attempt
\* budget passed over
C21_StartAtDecidedTier ==
    ExecutorStarted =>
        LET chain == policy.fallback_chain
        IN  /\ IF \E i \in DOMAIN chain : chain[i] = decision.route
               THEN /\ start_idx \in DOMAIN chain
                    /\ chain[start_idx] = decision.route
                    /\ \A j \in 1..(start_idx - 1) : chain[j] # decision.route
               ELSE start_idx = 1
            /\ \A k \in DOMAIN calls :
                  /\ CallPositions[k] \in DOMAIN chain
                  /\ CallPositions[k] >= start_idx
                  /\ calls[k].tier = chain[CallPositions[k]]
            /\ \A k \in 1..(Len(calls) - 1) :
                  /\ CallPositions[k] <= CallPositions[k + 1]
                  /\ BudgetedPositions(CallPositions[k] + 1,
                                       CallPositions[k + 1] - 1) = {}
            /\ calls # << >> =>
                  BudgetedPositions(start_idx, CallPositions[1] - 1) = {}

\* the decided tier is listed twice, after a tier that has a budget: the
\* run started at its first listing, never tried the head of the chain, and
\* went on to the second listing
C21_Witness ==
    /\ RunReturned
    /\ start_idx = 2
    /\ MaxAttempts(policy, policy.fallback_chain[1]) > 0
    /\ Len(policy.fallback_chain) >= 4
    /\ policy.fallback_chain[4] = decision.route
    /\ \E k \in DOMAIN calls : CallPositions[k] = 4

\* ---------------------------------------------------------------- C22

\* the adapter calls whose answer the executor has acted on (the last call is
\* not one of them while its execution event is being written)
HandledCalls ==
    { k \in DOMAIN calls : k < Len(calls) \/ pc # "log_execution" }

\* the handled calls on local that the adapter reported as failed
FailedLocalCalls ==
    { k \in HandledCalls : calls[k].tier = "local" /\ ~ calls[k].result.success }

\* C22: local_fail_count is the number of local attempts the adapter reported
\* as success=false: an attempt on another tier, and a local attempt that
\* succeeds with invalid JSON, leave it unchanged; so every escalation event
\* is preceded by execution events of failed local attempts, at least
\* escalation_rules.local_fail_count (>= 1) of them
C22_OnlyFailuresCount ==
    endpoint = "run" =>
        /\ local_fail_count = Cardinality(FailedLocalCalls)
        /\ \A i \in EventsOf("escalation") :
              /\ writes[i].tier = "local"
              /\ Cardinality({ j \in 1..(i - 1) :
                                 /\ IsExecutionEvent(writes[j])
                                 /\ writes[j].tier = "local"
                                 /\ ~ writes[j].success })
                    >= policy.escalation_rules.local_fail_count

\* the only local attempt succeeded with invalid JSON under a threshold of
\* one: the run went on to the next tier with local_fail_count 0 and no
\* escalation event
C22_Witness ==
    /\ RunReturned
    /\ Len(calls) >= 2
    /\ calls[1].tier = "local"
    /\ InvalidJsonCall(1)
    /\ calls[2].tier # "local"
    /\ policy.escalation_rules.local_fail_count = 1
    /\ local_fail_count = 0
    /\ EventsOf("escalation") = {}
    /\ Cardinality(EventsOf("invalid_json_escalation")) = 1

\* ---------------------------------------------------------------- C23

\* the k-th adapter call succeeded with output that fails the JSON gate, under
\* a policy that does not escalate on invalid JSON
InvalidJsonKept(k) ==
    /\ calls[k].result.success
    /\ ~ _is_valid_json_output(calls[k].result.output)
    /\ ~ policy.escalation_rules.invalid_json_escalate

FailedLocalUpTo(p) ==
    Cardinality({ k \in DOMAIN calls :
                    /\ calls[k].idx <= p
                    /\ calls[k].tier = "local"
                    /\ ~ calls[k].result.success })

\* the local chain positions the executor has left without an accepted
\* output, with local_fail_count at its threshold when it left
EscalatedPositions ==
    { p \in start_idx..(tier_idx - 1) :
        /\ p \in DOMAIN policy.fallback_chain
        /\ policy.fallback_chain[p] = "local"
        /\ FailedLocalUpTo(p) >= policy.escalation_rules.local_fail_count }

\* the kinds and tiers of the events written, in order
EventTrace ==
    LET events == SelectSeq(writes, LAMBDA w : w.op = "event")
    IN  [ i \in DOMAIN events |->
            << events[i].event_type, events[i].tier, events[i].success >> ]

\* C24: one escalation event is written for each local chain position the
\* executor leaves without an accepted output while local_fail_count >=
\* escalation_rules.local_fail_count, and none otherwise; it is written after
\* the events of the last local attempt and before any attempt on the next
\* position, and the executor goes on after it (to the next position with a
\* budget, or to the failure Result when the chain is exhausted)
C24_EscalationEvent ==
    ExecutorStarted =>
        /\ Cardinality(EventsOf("escalation")) = Cardinality(EscalatedPositions)
        /\ pc = "log_escalation" =>
              /\ calls # << >>
              /\ calls[Len(calls)].idx = tier_idx
              /\ calls[Len(calls)].tier = "local"
              /\ Len(ExecutionEvents) = Len(calls)
              /\ local_fail_count >= policy.escalation_rules.local_fail_count
        /\ \A i \in EventsOf("escalation") :
              LET n == Cardinality({ j \in 1..i : IsExecutionEvent(writes[j]) })
              IN  /\ n >= 1
                  /\ calls[n].tier = "local"
                  /\ writes[i].tier = "local"
                  /\ ~ writes[i].success
                  /\ \/ /\ IsExecutionEvent(writes[i - 1])
                        /\ ~ writes[i - 1].success
                     \/ IsEvent(writes[i - 1], "invalid_json_escalation")
                  /\ writes[i - 1].tier = "local"
                  /\ n < Len(calls) => calls[n + 1].idx > calls[n].idx
                  /\ i < Len(writes) =>
                        \/ /\ IsExecutionEvent(writes[i + 1])
                           /\ writes[i + 1].tier = calls[n + 1].tier
                        \/ writes[i + 1] = StatusUpdate(task_id, "failed")
                  /\ i = Len(writes) => pc \in { "attempt", "log_execution", "set_failed" }

\* local failed twice under the default policy and market then succeeded
C24_Witness ==
    /\ RunReturned
    /\ policy = DefaultPolicy
    /\ EventTrace = << << "execution", "local", FALSE >>,
                       << "execution", "local", FALSE >>,
                       << "escalation", "local", FALSE >>,
                       << "execution", "market", TRUE >>,
                       << "final_result", "market", TRUE >> >>
    /\ response.tier_used = "market"
    /\ response.decision.reason[Len(response.decision.reason)]
          = ReasonPart("escalated", 1, 0)
    /\ response.decision.confidence = 75

\* ---------------------------------------------------------------- C25

\* run_with_fallback has accepted an attempt and built the final Decision
Accepted ==
    /\ endpoint = "run"
    /\ \/ pc = "set_completed"
       \/ pc \in { "log_final", "done" } /\ router_result.success

\* C25: when an attempt is accepted e chain positions past the start index,
\* the final Decision has the route and the model of the accepting tier,
\* confidence max(0.5, original confidence - 0.15 * e) and the original reason,
\* with "; escalated ex" appended exactly when e > 0; the Result returned
\* carries that Decision
C25_FinalDecision ==
    Accepted =>
        LET original == compute_decision(request, policy, governance)
            last == calls[Len(calls)]
            e == last.idx - start_idx
        IN  /\ e >= 0
            /\ final_decision.route = policy.fallback_chain[last.idx]
            /\ final_decision.model
                  = ModelsGet(policy.models, policy.fallback_chain[last.idx],
                              original.model)
            /\ final_decision.model = last.model
            /\ final_decision.confidence
                  = IF original.confidence - 15 * e >= 50
                    THEN original.confidence - 15 * e ELSE 50
            /\ e = 0 => final_decision.reason = original.reason
            /\ e > 0 =>
                  /\ Len(final_decision.reason) = Len(original.reason) + 1
                  /\ SubSeq(final_decision.reason, 1, Len(original.reason))
                        = original.reason
                  /\ final_decision.reason[Len(final_decision.reason)]
                        = ReasonPart("escalated", e, 0)
            /\ pc \in { "log_final", "done" } =>
                  router_result.decision = final_decision
            /\ pc = "done" => response.decision = final_decision

\* a request decided market (confidence 0.85) was answered three positions
\* past its start index: the confidence is held at the floor of 0.5
C25_Witness ==
    /\ RunReturned
    /\ response.success
    /\ decision.route = "market"
    /\ calls[Len(calls)].idx - start_idx = 3
    /\ response.decision.confidence = 50
    /\ response.decision.reason[2] = ReasonPart("escalated", 3, 0)

\* ---------------------------------------------------------------- C26

\* max(1, floor(len / 4))
TokensOf(len) == IF len \div 4 > 1 THEN len \div 4 ELSE 1

\* C26: the Decision is that of the three rules tried in order, on
\* total_tokens = max(1, floor(len(prompt)/4)) + max(1, floor(len(context)/4))
\* (an absent context counts as empty): premium (0.95, level 2) iff
\* sensitivity=high and premium_trigger = "sensitivity_high_only"; otherwise
\* market (0.85, level 1) iff total_tokens > context_threshold_tokens and
\* context_overflow_escalate; otherwise local with confidence 0.90,
\* escalation_level 0 and cost_estimate 0
C26_ThreeRules ==
    Decided =>
        LET total_tokens == TokensOf(request.prompt_len)
                            + TokensOf(request.context_len)
            rule1 == /\ request.sensitivity = "high"
                     /\ policy.premium_trigger = "sensitivity_high_only"
            rule2 == /\ total_tokens > policy.context_threshold_tokens
                     /\ policy.escalation_rules.context_overflow_escalate
        IN  /\ decision.route = "premium" <=> rule1
            /\ decision.route = "market" <=> (~ rule1 /\ rule2)
            /\ decision.route = "local" <=> (~ rule1 /\ ~ rule2)
            /\ decision.route = "premium" =>
                  decision.confidence = 95 /\ decision.escalation_level = 2
            /\ decision.route = "market" =>
                  decision.confidence = 85 /\ decision.escalation_level = 1
            /\ decision.route = "local" =>
                  /\ decision.confidence = 90
                  /\ decision.escalation_level = 0
                  /\ decision.cost_estimate = 0

\* a sensitivity=high request under the trigger "manual" fell through to the
\* context rule: its context overflows the default threshold
C26_Witness ==
    /\ endpoint = "route" /\ pc = "done"
    /\ request.sensitivity = "high"
    /\ policy.premium_trigger = "manual"
    /\ request.context_len = 20000
    /\ policy.context_threshold_tokens = 4000
    /\ policy.escalation_rules.context_overflow_escalate
    /\ response.decision.route = "market"
    /\ response.decision.confidence = 85

\* ---------------------------------------------------------------- C27

\* the writes that name a task: status updates, the decision record, events
NamesTask(w) == w.op \in { "status", "decision_insert", "event" }

\* C27: past the task insert, /run holds a task_id that is not None: the id
\* the registry allocated when the insert succeeded, a locally minted uuid
\* when it failed; every status update, decision record and event written for
\* the request carries it, and so does the Result returned
C27_OneTaskId ==
    (endpoint = "run" /\ pc \notin { "get_policy", "get_governance", "log_task" }) =>
        /\ task_id # None
        /\ task_id = IF db.task THEN RegistryTaskId ELSE LocalTaskId
        /\ writes # << >>
        /\ writes[1].op = "task_insert"
        /\ \A i \in DOMAIN writes :
              NamesTask(writes[i]) => writes[i].task_id = task_id
        /\ pc \in { "log_final", "done" } => router_result.task_id = task_id
        /\ pc = "done" => response.task_id = task_id

\* the registry refused the task insert: /run went through to a failure
\* Result after two attempts, every write under the locally minted id
C27_Witness ==
    /\ RunReturned
    /\ ~ db.task
    /\ response.task_id = LocalTaskId
    /\ ~ response.success
    /\ Len(calls) >= 2
    /\ Cardinality({ i \in DOMAIN writes : NamesTask(writes[i]) }) >= 7

\* ---------------------------------------------------------------- C28

\* an /execute request has called the adapter of its tier
AdapterCalled == endpoint = "execute" /\ calls # << >>

\* what holds of every adapter call c, whatever its error says: generate
\* returns a result dict and raises nothing; a hosted adapter without
\* credential issues no POST; success is true exactly on a 200 whose body could
\* be processed, and then there is no error; a failure has no output, no
\* tokens, and an error string
AdapterReturns(c) ==
    /\ pc # "http500"
    /\ c.result.success \in BOOLEAN
    /\ c.result.latency_ms >= 0
    /\ c.result.token_count >= 0
    /\ c.posted <=> (c.tier = "local" \/ c.key_set)
    /\ c.result.success <=> /\ c.posted
                            /\ c.backend.kind = "response"
                            /\ c.backend.status = 200
                            /\ c.backend.body # "malformed"
    /\ c.result.success => /\ c.result.error = NoMessage
                           /\ c.result.output = c.backend.body
    /\ ~ c.result.success => /\ c.result.output = None
                             /\ c.result.token_count = 0
                             /\ c.result.error # NoMessage

\* C28 as stated: every adapter call returns an AttemptResult and raises
\* nothing; success=true iff the backend answered 200 with a body that could
\* be processed; a non-200 status, a timeout, any other exception and a missing
\* credential (no POST being issued) each give success=false, no output and a
\* non-empty error
C28_Original ==
    AdapterCalled =>
        /\ AdapterReturns(calls[1])
        /\ ~ calls[1].result.success => calls[1].result.error[1] # ""

\* C28 amended: as stated, but for the error of a failure: it is "<KEY> not
\* configured" without credential, "<Provider> returned <status>" on a non-200
\* status, "<Provider> request timed out" on a timeout, and str() of the
\* exception otherwise, which is empty when the exception carries no message
C28_AdapterContract ==
    AdapterCalled =>
        LET c == calls[1]
            error == c.result.error
        IN  /\ AdapterReturns(c)
            /\ ~ c.posted =>
                  error = << CredentialName(c.tier) \o " not configured" >>
            /\ (c.backend.kind = "response" /\ c.backend.status # 200) =>
                  error = << Provider(c.tier) \o " returned "
                               \o ToString(c.backend.status) >>
            /\ c.backend.kind = "timeout" =>
                  error = << Provider(c.tier) \o " request timed out" >>
            /\ c.backend.kind = "exception" => error = << c.backend.message >>
            /\ (~ c.result.success /\ error[1] = "") =>
                  (c.backend.kind = "exception" /\ c.backend.message = "")

\* the transport raised an exception without message: /execute returned the
\* failure with an empty error string
C28_Witness ==
    /\ AdapterCalled
    /\ pc = "done"
    /\ calls[1].backend = HttpException("")
    /\ ~ response.success
    /\ response.error = << "" >>
    /\ response.output = None

\* ---------------------------------------------------------------- C29

\* C29: every Result run_with_fallback returns, success or failure, has
\* decision.route = tier_used and decision.model = model_used (on success the
\* accepting tier and its model, on failure the decided tier and its model)
C29_DecisionMatchesTierUsed ==
    FallbackReturned =>
        /\ router_result.decision.route = router_result.tier_used
        /\ router_result.decision.model = router_result.model_used
        /\ IF router_result.success
           THEN /\ router_result.tier_used = calls[Len(calls)].tier
                /\ router_result.model_used = calls[Len(calls)].model
           ELSE /\ router_result.tier_used = decision.route
                /\ router_result.model_used = decision.model
        /\ pc = "done" => response = router_result

\* all tiers were exhausted, the last attempt on a tier that is not the
\* decided one: the failure Result names the decided tier
C29_Witness ==
    /\ RunReturned
    /\ ~ response.success
    /\ calls # << >>
    /\ calls[Len(calls)].tier # decision.route
    /\ response.tier_used = decision.route
    /\ response.decision.route = decision.route

\* ---------------------------------------------------------------- C30

\* a /run request with sensitivity=high is served under a policy with the
\* default fallback_chain and premium_trigger
HighUnderDefaultPolicy ==
    /\ RunStarted
    /\ request.sensitivity = "high"
    /\ policy.fallback_chain = << "local", "market", "premium" >>
    /\ policy.premium_trigger = "sensitivity_high_only"

\* C30: under the default fallback_chain [local, market, premium] and
\* premium_trigger "sensitivity_high_only", a /run request with
\* sensitivity=high calls neither the local nor the market adapter: premium is
\* attempted once, and whatever it returns the run ends there
C30_HighSensitivityOnlyPremium ==
    HighUnderDefaultPolicy =>
        /\ Len(calls) <= 1
        /\ \A k \in DOMAIN calls : calls[k].tier = "premium"
        /\ pc \in { "set_completed", "set_failed", "log_final", "done" } =>
              Len(calls) = 1
        /\ pc # "log_escalation"
        /\ EventsOf("escalation") = {}

\* premium failed for a sensitivity=high request under the default policy:
\* the run returned the failure after that one attempt
C30_Witness ==
    /\ RunReturned
    /\ policy = DefaultPolicy
    /\ request.sensitivity = "high"
    /\ ~ response.success
    /\ Len(calls) = 1
    /\ calls[1].tier = "premium"
    /\ ~ calls[1].result.success

\* ---------------------------------------------------------------- C31

\* a /run request arrives; the registry holds a policy of any chain, retry
\* budget and escalation rules, or the long chain
InitRun ==
    /\ endpoint = "run"
    /\ regPolicy \in { Readable(p) : p \in ExecutorPolicies }
                     \cup { Readable([ DefaultPolicy EXCEPT
                                         !.fallback_chain = LongChain ]) }
    /\ regGovernance = Readable(RegistryGovernance)
    /\ request \in RouteRequests
    /\ pc = "get_policy"
    /\ model = None
    /\ Fresh
    /\ reads = << >>
    /\ served = 1
    /\ suspended = << >>

\* the steps of handle_run and run_with_fallback: each is one awaited call
\* (a registry read, a registry write or an adapter call) that returns,
\* followed by the code up to the next await
NextRun ==
    \/ GetPolicy
    \/ GetGovernance
    \/ LogTask
    \/ SetRouting
    \/ LogDecision
    \/ SetExecuting
    \/ Attempt
    \/ LogExecution
    \/ LogInvalidJson
    \/ LogEscalation
    \/ SetCompleted
    \/ SetFailed
    \/ LogFinal

\* the calls issued so far; every step of NextRun issues one
issued == << reads, writes, calls >>

\* one /run request whose every awaited adapter and registry call eventually
\* returns: the handler is never left suspended at an await for ever
SpecRun == InitRun /\ [][NextRun]_vars /\ WF_issued(NextRun)

\* max_local_retries x (local entries of the chain from the start index on)
\* + (entries of the other tiers from the start index on)
CallBudget ==
    policy.max_local_retries * Cardinality(PositionsOf("local"))
    + Cardinality(PositionsOf("market")) + Cardinality(PositionsOf("premium"))

\* the adapter calls made for the request stay within the budget
CallsWithinBudget == ExecutorStarted => Len(calls) <= CallBudget

\* the executor goes forward only: each adapter call is the next attempt at
\* the chain position of the call before it, or the first attempt at a later
\* position; the first call is a first attempt at or after the start index
NeverLoopsBack ==
    ExecutorStarted =>
        \A k \in DOMAIN calls :
            IF k = 1
            THEN calls[k].idx >= start_idx /\ calls[k].attempt = 0
            ELSE \/ /\ calls[k].idx = calls[k - 1].idx
                    /\ calls[k].attempt = calls[k - 1].attempt + 1
                 \/ /\ calls[k].idx > calls[k - 1].idx
                    /\ calls[k].attempt = 0

\* between two adapter calls the handler awaits registry writes only (the
\* execution event, an escalation event): there is no sleep or backoff step
NoWaitBetweenAttempts ==
    [][ (ExecutorStarted /\ calls' = calls) => writes' # writes ]_vars

\* /run has answered its caller: with a RouterResult, or with the HTTP 500
\* run() makes of an exception
RunAnswered == endpoint = "run" /\ pc \in { "done", "http500" }

\* every /run ends within the budget of adapter calls, going forward only
\* and without a waiting step, when "ends" includes the HTTP 500 answer
RunEndsWithinBudget ==
    /\ <> RunAnswered
    /\ [] CallsWithinBudget
    /\ [] NeverLoopsBack
    /\ NoWaitBetweenAttempts

\* C31: when every adapter call and every registry call eventually returns,
\* every /run eventually returns a Result, after at most max_local_retries x
\* (local entries of the chain from the start index) + (non-local entries from
\* the start index) adapter calls, and the executor never loops back or
\* waits between attempts
C31_Original ==
    /\ <> RunReturned
    /\ [] CallsWithinBudget
    /\ [] NeverLoopsBack
    /\ NoWaitBetweenAttempts

\* /run has ended without a Result: the attempt accepted more than 3 chain
\* positions after the start index raised, within the budget of adapter calls
C31_Witness ==
    /\ endpoint = "run"
    /\ pc = "http500"
    /\ response = Unbound
    /\ calls[Len(calls)].result.success
    /\ calls[Len(calls)].idx - start_idx > 3
    /\ Len(calls) <= CallBudget

\* ---------------------------------------------------------------- C32

\* the frame of the running /run handler: the locals of handle_run and of
\* run_with_fallback, with what the model records of the request alone (its
\* number, its adapter calls, the reads and writes it issued, its rows)
Locals ==
    [ served |-> served,
      request |-> request,
      pc |-> pc,
      policy |-> policy,
      governance |-> governance,
      task_id |-> task_id,
      decision |-> decision,
      decision_id |-> decision_id,
      start_idx |-> start_idx,
      tier_idx |-> tier_idx,
      attempt |-> attempt,
      model |-> model,
      local_fail_count |-> local_fail_count,
      last_error |-> last_error,
      total_latency |-> total_latency,
      result |-> result,
      final_decision |-> final_decision,
      router_result |-> router_result,
      response |-> response,
      calls |-> calls,
      reads |-> reads,
      writes |-> writes,
      db |-> db,
      cancelled |-> cancelled ]

\* the frame of a handler for request n that has not run yet
FreshLocals(n, req) ==
    [ served |-> n, request |-> req, pc |-> "get_policy", policy |-> Unbound,
      governance |-> Unbound, task_id |-> None, decision |-> Unbound,
      decision_id |-> None, start_idx |-> 0, tier_idx |-> 0, attempt |-> 0,
      model |-> None, local_fail_count |-> 0, last_error |-> NoMessage,
      total_latency |-> 0, result |-> Unbound, final_decision |-> Unbound,
      router_result |-> Unbound, response |-> Unbound, calls |-> << >>,
      reads |-> << >>, writes |-> << >>, db |-> NoRows, cancelled |-> << >> ]

\* the policy two concurrent requests run under: one attempt on local, an
\* escalation after one local failure and on invalid JSON, then market
PairPolicy ==
    [ DefaultPolicy EXCEPT
        !.fallback_chain = << "local", "market" >>,
        !.max_local_retries = 1,
        !.escalation_rules.local_fail_count = 1 ]

\* the two requests: one decided local, one decided premium, which the chain
\* does not hold, so that both start at its head
PairRequests ==
    << [ task_type |-> "classify", sensitivity |-> "normal", prompt_len |-> 5,
         context_len |-> 0, source |-> "n8n" ],
       [ task_type |-> "classify", sensitivity |-> "high", prompt_len |-> 5,
         context_len |-> 0, source |-> "n8n" ] >>

\* two /run requests have arrived: the handler of the first runs, the handler
\* of the second waits to be started
InitPair ==
    /\ endpoint = "run"
    /\ regPolicy = Readable(PairPolicy)
    /\ regGovernance = Readable(RegistryGovernance)
    /\ request = PairRequests[1]
    /\ pc = "get_policy"
    /\ model = None
    /\ Fresh
    /\ reads = << >>
    /\ served = 1
    /\ suspended = << FreshLocals(2, PairRequests[2]) >>

\* Resume with local_fail_count kept in one place for all requests
Resume_SharedFailCount ==
    /\ endpoint = "run"
    /\ \E i \in DOMAIN suspended :
         LET h == suspended[i]
         IN  /\ h.pc \notin { "done", "http500" }
             /\ suspended' = [ suspended EXCEPT ![i] = Locals ]
             /\ served' = h.served
             /\ request' = h.request
             /\ pc' = h.pc
             /\ policy' = h.policy
             /\ governance' = h.governance
             /\ task_id' = h.task_id
             /\ decision' = h.decision
             /\ decision_id' = h.decision_id
             /\ start_idx' = h.start_idx
             /\ tier_idx' = h.tier_idx
             /\ attempt' = h.attempt
             /\ model' = h.model
             /\ last_error' = h.last_error
             /\ total_latency' = h.total_latency
             /\ result' = h.result
             /\ final_decision' = h.final_decision
             /\ router_result' = h.router_result
             /\ response' = h.response
             /\ calls' = h.calls
             /\ reads' = h.reads
             /\ writes' = h.writes
             /\ db' = h.db
             /\ cancelled' = h.cancelled
    /\ UNCHANGED <<regPolicy, regGovernance, endpoint, local_fail_count>>

\* the event loop runs another handler: the running one stays suspended at
\* its await with its frame, and a waiting one goes on with its own. What
\* the handlers share stays as it is: the registry's keys and its client
Resume ==
    /\ endpoint = "run"
    /\ \E i \in DOMAIN suspended :
         LET h == suspended[i]
         IN  /\ h.pc \notin { "done", "http500" }
             /\ suspended' = [ suspended EXCEPT ![i] = Locals ]
             /\ served' = h.served
             /\ request' = h.request
             /\ pc' = h.pc
             /\ policy' = h.policy
             /\ governance' = h.governance
             /\ task_id' = h.task_id
             /\ decision' = h.decision
             /\ decision_id' = h.decision_id
             /\ start_idx' = h.start_idx
             /\ tier_idx' = h.tier_idx
             /\ attempt' = h.attempt
             /\ model' = h.model
             /\ local_fail_count' = h.local_fail_count
             /\ last_error' = h.last_error
             /\ total_latency' = h.total_latency
             /\ result' = h.result
             /\ final_decision' = h.final_decision
             /\ router_result' = h.router_result
             /\ response' = h.response
             /\ calls' = h.calls
             /\ reads' = h.reads
             /\ writes' = h.writes
             /\ db' = h.db
             /\ cancelled' = h.cancelled
    /\ UNCHANGED <<regPolicy, regGovernance, endpoint>>

NextPair ==
    \/ GetPolicy
    \/ GetGovernance
    \/ LogTask
    \/ SetRouting
    \/ LogDecision
    \/ SetExecuting
    \/ Attempt
    \/ LogExecution
    \/ LogInvalidJson
    \/ LogEscalation
    \/ SetCompleted
    \/ SetFailed
    \/ LogFinal
    \/ Resume

\* two /run requests served concurrently by one event loop, switching from
\* one handler to the other at any await
SpecPair == InitPair /\ [][NextPair]_vars

RECURSIVE Escalations(_, _, _, _, _, _)

\* run alone: the escalation events written from nxt on, up to the place
\* the executor next suspends at (an attempt, or the failed status)
Escalations(pol, d, tid, did, nxt, lfc) ==
    IF nxt.pc = "log_escalation"
    THEN LET tier == pol.fallback_chain[nxt.idx]
             rest == Escalations(pol, d, tid, did,
                                 EnterTier(pol, nxt.idx + 1, lfc), lfc)
         IN  [ pos |-> rest.pos,
               events |-> << Event(tid, did, "escalation", tier,
                                   ModelsGet(pol.models, tier, d.model), FALSE,
                                   0, 0,
                                   << "Local failed N times", ToString(lfc) >>,
                                   NoMessage) >> \o rest.events ]
    ELSE [ pos |-> nxt, events |-> << >> ]

\* the final_result event handle_run writes for the RouterResult rr
FinalResultEventOf(tid, did, rr) ==
    Event(tid, did, "final_result", rr.tier_used, rr.model_used, rr.success,
          rr.latency_ms, 0, rr.error, Preview(rr.output))

RECURSIVE Alone(_, _, _, _, _, _, _)

\* run_with_fallback and the end of handle_run executed from top to bottom
\* for one request, as a function of the policy, the decision, the ids and
\* the adapters' answers resp: the RouterResult and the events written. st
\* is the executor at answer k
Alone(pol, d, resp, tid, did, k, st) ==
    LET chain == pol.fallback_chain
        start == StartIdx(chain, d.route)
    IN  IF st.pos.pc = "set_failed"
        THEN LET rr == FailureResult(tid, d, st.lat, st.err)
             IN  [ kind |-> "result", result |-> rr,
                   events |-> Append(st.ev, FinalResultEventOf(tid, did, rr)) ]
        ELSE IF k > Len(resp)
        THEN [ kind |-> "pending", result |-> Unbound, events |-> st.ev ]
        ELSE
          LET res == resp[k]
              idx == st.pos.idx
              tier == chain[idx]
              mdl == ModelsGet(pol.models, tier, d.model)
              lat == st.lat + res.latency_ms
              ev == Append(st.ev,
                           Event(tid, did, "execution", tier, mdl, res.success,
                                 res.latency_ms, res.token_count, res.error,
                                 Preview(res.output)))
          IN  IF res.success /\ (\/ _is_valid_json_output(res.output)
                                 \/ ~ pol.escalation_rules.invalid_json_escalate)
              THEN LET fd == FinalDecision(d, tier, mdl, idx - start, res)
                       rr == SuccessResult(tid, fd, res, tier, mdl, lat)
                   IN  IF RouterDecisionValid(fd)
                       THEN [ kind |-> "result", result |-> rr,
                              events |-> Append(ev, FinalResultEventOf(tid, did, rr)) ]
                       ELSE [ kind |-> "http500", result |-> Unbound,
                              events |-> ev ]
              ELSE IF res.success
              THEN LET esc == Escalations(pol, d, tid, did,
                                          AfterAttempts(pol, idx, st.lfc), st.lfc)
                   IN  Alone(pol, d, resp, tid, did, k + 1,
                             [ pos |-> esc.pos, att |-> 0, lfc |-> st.lfc,
                               lat |-> lat, err |-> << "Invalid JSON output" >>,
                               ev |-> Append(ev,
                                        Event(tid, did, "invalid_json_escalation",
                                              tier, mdl, FALSE, 0, 0,
                                              << "Output is not valid JSON" >>,
                                              NoMessage)) \o esc.events ])
              ELSE LET lfc == IF tier = "local" THEN st.lfc + 1 ELSE st.lfc
                       esc == Escalations(pol, d, tid, did,
                                          AfterAttempts(pol, idx, lfc), lfc)
                   IN  IF st.att + 1 < MaxAttempts(pol, tier)
                       THEN Alone(pol, d, resp, tid, did, k + 1,
                                  [ pos |-> st.pos, att |-> st.att + 1,
                                    lfc |-> lfc, lat |-> lat, err |-> res.error,
                                    ev |-> ev ])
                       ELSE Alone(pol, d, resp, tid, did, k + 1,
                                  [ pos |-> esc.pos, att |-> 0, lfc |-> lfc,
                                    lat |-> lat, err |-> res.error,
                                    ev |-> ev \o esc.events ])

\* what the request of frame h gives when its handler runs alone with the
\* policy and governance h read, the ids h was given and the answers the
\* adapters gave h
RunAlone(h) ==
    LET d == compute_decision(h.request, h.policy, h.governance)
        esc == Escalations(h.policy, d, h.task_id, h.decision_id,
                           EnterTier(h.policy,
                                     StartIdx(h.policy.fallback_chain, d.route), 0),
                           0)
    IN  Alone(h.policy, d, [ k \in DOMAIN h.calls |-> h.calls[k].result ],
              h.task_id, h.decision_id, 1,
              [ pos |-> esc.pos, att |-> 0, lfc |-> 0, lat |-> 0,
                err |-> NoMessage, ev |-> esc.events ])

\* the frames of all the handlers, the running one first
Handlers == << Locals >> \o suspended

RECURSIVE WritesOf(_)

\* the writes the registry has received from the handlers hs, request by
\* request (the registry keeps no order between the rows of two requests)
WritesOf(hs) ==
    IF hs = << >> THEN << >> ELSE Head(hs).writes \o WritesOf(Tail(hs))

\* the audit events the registry holds under task id tid, in order
EventsOfTask(tid) ==
    SelectSeq(WritesOf(Handlers), LAMBDA w : w.op = "event" /\ w.task_id = tid)

\* a is a prefix of b
IsPrefix(a, b) == Len(a) <= Len(b) /\ a = SubSeq(b, 1, Len(a))

\* the handler of frame h has computed its decision
HasDecided(h) ==
    h.pc \notin { "get_policy", "get_governance", "log_task", "set_routing" }

\* the adapter calls of frame h whose answer the executor has dealt with
\* (the last one is dealt with after its execution event)
HandledBy(h) ==
    IF h.pc = "log_execution" THEN Len(h.calls) - 1 ELSE Len(h.calls)

\* C32: of two /run requests served concurrently and interleaved at any
\* await, each returns the Result, and has under its task_id the audit
\* events, that it gives when run alone with the same policy and governance
\* reads and the same adapter answers (while it runs, the events are a prefix
\* of these); the fail count, the chain index, the last error and the latency
\* total of a request are those of its own adapter calls
C32_ConcurrentAsAlone ==
    \A i \in DOMAIN Handlers :
        LET h == Handlers[i]
            own == EventsOfTask(h.task_id)
        IN  IF ~ HasDecided(h) THEN own = << >>
            ELSE LET a == RunAlone(h)
                 IN  /\ IsPrefix(own, a.events)
                     /\ h.pc = "done" =>
                           /\ a.kind = "result"
                           /\ h.response = a.result
                           /\ own = a.events
                     /\ h.pc = "http500" =>
                           /\ a.kind = "http500"
                           /\ own = a.events
                     /\ h.local_fail_count =
                           Cardinality({ k \in 1..HandledBy(h) :
                                           /\ h.calls[k].tier = "local"
                                           /\ ~ h.calls[k].result.success })
                     /\ h.calls # << >> =>
                           /\ h.tier_idx >= h.calls[Len(h.calls)].idx
                           /\ h.total_latency >= h.calls[Len(h.calls)].result.latency_ms

\* both handlers are inside run_with_fallback at once: the running one has
\* failed on local and escalated, and is about to call market, while the
\* other, started after it, waits for its first call on local to be logged;
\* each has the fail count of its own calls
C32_Witness ==
    /\ endpoint = "run"
    /\ suspended # << >>
    /\ pc = "attempt"
    /\ Len(calls) = 1
    /\ ~ calls[1].result.success
    /\ local_fail_count = 1
    /\ tier_idx = 2
    /\ suspended[1].pc = "log_execution"
    /\ Len(suspended[1].calls) = 1
    /\ suspended[1].calls[1].tier = "local"
    /\ suspended[1].local_fail_count = 0
    /\ suspended[1].tier_idx = 1
    /\ EventsOfTask(task_id) # << >>
    /\ EventsOfTask(suspended[1].task_id) = << >>

====
